---- MODULE Spec2Model ----
(***************************************************************************)
(* Model of the installer subsystem of the voiceflow CLI:                  *)
(*   - execCommand / setupProcessHandlers and safeExec (utils/exec.ts),    *)
(*   - quickExit / quickError (utils/error.ts),                            *)
(*   - executeWhisperInstallation (installer/installationWhisper.ts),      *)
(*   - downloadFile (utils/file.ts) and executeYtDlpInstallation,          *)
(*   - checkAppInstalled (installer/checkApp.ts) and                       *)
(*     runAutomaticInstallation (installer/automatic.ts),                  *)
(*   - detectHardware (installer/detectHardware.ts).                       *)
(* The Node event loop is modelled by interleaving: one action is one      *)
(* macrotask (an OS signal, a timer, a child-process event, an I/O         *)
(* completion) or the continuation of an awaiting caller.  Continuations   *)
(* of settled promises are microtasks, which run before the next           *)
(* macrotask: see ContinuationPending.                                     *)
(***************************************************************************)
EXTENDS Integers, Sequences, FiniteSets, TLC

VARIABLES
  platform,    \* process.platform: "win32" or "posix" (darwin / linux)
  aborted,     \* abortController.signal.aborted of the session's controller
  abortCause,  \* [by, at]: who called abort() first ("interrupt", "timeout")
               \* and at which await of the caller
  fs,          \* the paths that exist under the install directories
  pc,          \* position of the awaiting caller (the async function's await)
  spinner,     \* ora spinner: "none", "running", "succeeded", "failed"
  exit,        \* process.exit: [via, code, message]; via = "none" while alive
  cc1ok,       \* checkBuildTools: result of the first compiler probe
  sx,          \* the safeExec call in flight
  leaked,      \* armed safeExec timers, bound to the session's controller,
               \* whose safeExec has already returned
  proc,        \* the execCommand call in flight: child process and promise
  observed,    \* what the caller of execCommand saw when its await resumed
  dl,          \* the downloadFile call: response, reader loop, destination file
  log,         \* history: the operations the installers started, in order
  auto,        \* runAutomaticInstallation: invocations, menus, selections
  hw,          \* detectHardware: the five probe promises and its own promise
  rec,         \* getWhisperRecommendations: the profile passed and the result
  dep,         \* checkDependencies and the two functions over its result
  childOut,    \* the output of the child of execCommand and the callback calls
  size         \* the size fields of a df line and what parseStorageSize made of them

vars == <<platform, aborted, abortCause, fs, pc, spinner, exit, cc1ok, sx,
          leaked, proc, observed, dl, log, auto, hw, rec, dep, childOut, size>>

-----------------------------------------------------------------------------
(* Errors: the name and the message of the Error objects the code creates. *)

TimeoutError == [name |-> "Error", message |-> "operation timed out"]
UserAbortError == [name |-> "AbortError", message |-> "cancelled by user"]
ExitCodeError == [name |-> "Error", message |-> "stderr or exit code"]
SpawnError == [name |-> "Error", message |-> "spawn failed"]
ThrownAbortError == [name |-> "Error", message |-> "AbortError"]
BuildFailedError == [name |-> "Error", message |-> "build failed"]
NoError == [name |-> "none", message |-> "none"]

Alive == exit.via = "none"

-----------------------------------------------------------------------------
(* utils/error.ts                                                          *)

QuickExitCode == 0
QuickErrorCode == 0

QuickExit(message) == [via |-> "quickExit", code |-> QuickExitCode, message |-> message]
QuickError(message) == [via |-> "quickError", code |-> QuickErrorCode, message |-> message]

-----------------------------------------------------------------------------
(* execCommand: the promise and the handlers of setupProcessHandlers.      *)

Pending == [state |-> "pending", error |-> NoError]
Fulfilled == [state |-> "fulfilled", error |-> NoError]
Rejected(e) == [state |-> "rejected", error |-> e]
Settled(p) == p.state \in {"fulfilled", "rejected"}

\* resolve / reject of a Promise: only the first call has an effect
Settle(p, outcome) == IF p.state = "pending" THEN outcome ELSE p

IdleProc ==
  [phase |-> "idle", timer |-> FALSE, listener |-> FALSE,
   promise |-> [state |-> "none", error |-> NoError],
   kills |-> {}, errored |-> FALSE, first |-> "none", step |-> "none"]

\* the first of the four events after the spawn (history, read by no handler)
MarkFirst(p, ev) ==
  IF p.phase = "running" /\ p.first = "none" THEN [p EXCEPT !.first = ev] ELSE p

\* execCommand + setupProcessHandlers up to the return of the promise
SpawnProc(step) ==
  [phase |-> "running", timer |-> TRUE, listener |-> TRUE, promise |-> Pending,
   kills |-> {}, errored |-> FALSE, first |-> "none", step |-> step]

\* a timeout that kills the child and leaves the rejection to the close handler
TimerHandler_NoReject(p) ==
  [p EXCEPT !.timer = FALSE, !.kills = @ \cup {"SIGKILL"}]

\* the setTimeout callback
TimerHandler(p) ==
  [p EXCEPT !.timer = FALSE,
            !.kills = @ \cup {"SIGKILL"},
            !.promise = Settle(@, Rejected(TimeoutError))]

\* an abortHandler that forgets error.name = 'AbortError'
AbortHandler_PlainError(p) ==
  [p EXCEPT !.timer = FALSE,
            !.kills = @ \cup {"SIGTERM"},
            !.promise = Settle(@, Rejected([name |-> "Error",
                                            message |-> "cancelled by user"]))]

\* abortHandler
AbortHandler(p) ==
  [p EXCEPT !.timer = FALSE,
            !.kills = @ \cup {"SIGTERM"},
            !.promise = Settle(@, Rejected(UserAbortError))]

\* a close handler whose outcome replaces an earlier one
CloseHandler_Overwrite(p, code) ==
  [p EXCEPT !.phase = "closed",
            !.timer = FALSE,
            !.listener = FALSE,
            !.promise = IF code = "0" THEN Fulfilled ELSE Rejected(ExitCodeError)]

\* process.on('close')
CloseHandler(p, code) ==
  [p EXCEPT !.phase = "closed",
            !.timer = FALSE,
            !.listener = FALSE,
            !.promise = Settle(@, IF code = "0" THEN Fulfilled
                                                ELSE Rejected(ExitCodeError))]

\* process.on('error')
ErrorHandler(p) ==
  [p EXCEPT !.errored = TRUE,
            !.timer = FALSE,
            !.listener = FALSE,
            !.promise = Settle(@, Rejected(SpawnError))]

\* the 'abort' event of the signal reaches the listeners that are attached
DispatchAbort(p) == IF p.listener THEN AbortHandler(p) ELSE p

-----------------------------------------------------------------------------
(* downloadFile (utils/file.ts): state of one call.                        *)

MaxSize == 4

DownloadCancelledError == [name |-> "Error", message |-> "download cancelled"]
HttpStatusError == [name |-> "Error", message |-> "download failed: status"]
ZeroSizeError == [name |-> "Error", message |-> "file size is 0"]
NoBodyError == [name |-> "Error", message |-> "response body is empty"]
FetchAbortError == [name |-> "AbortError", message |-> "This operation was aborted"]
NetworkError == [name |-> "TypeError", message |-> "fetch failed"]
WriteError == [name |-> "Error", message |-> "write failed"]

IdleDl ==
  [phase |-> "idle",        \* idle, fetching, reading, writing, done, failed
   entryAborted |-> FALSE,  \* signal.aborted when downloadFile was called
   fetched |-> FALSE,       \* fetch(url, {signal}) was issued
   cl |-> 0,                \* totalSize parsed from Content-Length (0: missing)
   remaining |-> 0,         \* bytes of the body not yet delivered
   bodyLen |-> 0,           \* bytes the body delivers in all
   downloaded |-> 0,        \* downloadedSize
   reads |-> 0,             \* chunks returned by reader.read()
   progress |-> <<>>,       \* the percentages passed to the progress callback
   writes |-> 0,            \* calls of fs.writeFile(targetPath, ...)
   dest |-> "untouched",    \* targetPath: untouched, complete, partial
   error |-> NoError]

\* Math.round((downloadedSize / totalSize) * 100)
RoundPercent(downloadedSize, totalSize) ==
  (200 * downloadedSize + totalSize) \div (2 * totalSize)

DlFail(d, error) == [d EXCEPT !.phase = "failed", !.error = error]

\* an entry that issues the request without looking at the signal
DownloadEntry_NoPreflight(d, isAborted) ==
  [d EXCEPT !.entryAborted = isAborted, !.phase = "fetching", !.fetched = TRUE]

\* downloadFile up to its first await: the pre-flight check, then fetch
DownloadEntry(d, isAborted) ==
  IF isAborted
    THEN DlFail([d EXCEPT !.entryAborted = TRUE], DownloadCancelledError)
    ELSE [d EXCEPT !.phase = "fetching", !.fetched = TRUE]

\* a response check that lets a missing Content-Length through
ResponseChecked_NoSizeCheck(d, ok, contentLength, hasBody, bodyLen) ==
  IF ~ok THEN DlFail(d, HttpStatusError)
  ELSE IF ~hasBody THEN DlFail(d, NoBodyError)
  ELSE [d EXCEPT !.phase = "reading", !.cl = contentLength,
                 !.bodyLen = bodyLen, !.remaining = bodyLen]

\* the response arrived: status, Content-Length and body checks, getReader()
ResponseChecked(d, ok, contentLength, hasBody, bodyLen) ==
  IF ~ok THEN DlFail(d, HttpStatusError)
  ELSE IF contentLength = 0 THEN DlFail([d EXCEPT !.cl = 0], ZeroSizeError)
  ELSE IF ~hasBody THEN DlFail([d EXCEPT !.cl = contentLength], NoBodyError)
  ELSE [d EXCEPT !.phase = "reading", !.cl = contentLength,
                 !.bodyLen = bodyLen, !.remaining = bodyLen]

\* a loop body that reports the progress before it counts the chunk
ChunkRead_ReportsBeforeCounting(d, n) ==
  [d EXCEPT !.remaining = @ - n,
            !.reads = @ + 1,
            !.downloaded = @ + n,
            !.progress = IF d.cl > 0
                           THEN Append(@, RoundPercent(d.downloaded, d.cl))
                           ELSE @]

\* one iteration of the read loop with a chunk of n bytes
ChunkRead(d, n) ==
  [d EXCEPT !.remaining = @ - n,
            !.reads = @ + 1,
            !.downloaded = @ + n,
            !.progress = IF d.cl > 0
                           THEN Append(@, RoundPercent(d.downloaded + n, d.cl))
                           ELSE @]

\* the polling checks of the signal: top of the loop and before the write
PollAborted(d, isAborted) ==
  IF isAborted THEN DlFail(d, DownloadCancelledError) ELSE d

\* { done: true }: releaseLock, concatenate, last check, fs.writeFile issued
StreamDone(d, isAborted) ==
  IF isAborted
    THEN DlFail(d, DownloadCancelledError)
    ELSE [d EXCEPT !.phase = "writing", !.writes = @ + 1]

-----------------------------------------------------------------------------
(* The session's AbortController (commands/setup.ts) and safeExec.         *)

NoCause == [by |-> "none", at |-> "none"]

\* AbortController.abort(): the first call sets the flag and fires 'abort'
SignalAbort(by) ==
  IF aborted
    THEN UNCHANGED <<aborted, abortCause, proc>>
    ELSE /\ aborted' = TRUE
         /\ abortCause' = [by |-> by, at |-> pc]
         /\ proc' = DispatchAbort(MarkFirst(proc, "abort"))

IdleSx == [phase |-> "idle", shared |-> FALSE, timer |-> FALSE, killed |-> FALSE,
           result |-> "none"]

\* safeExec up to its await: controller = abortController || new AbortController(),
\* setTimeout(() => controller.abort(), timeout), execAsync(command, {signal})
SxCall(shared) ==
  [phase |-> "running", shared |-> shared, timer |-> TRUE, killed |-> FALSE,
   result |-> "none"]

\* the signal handed to execAsync is aborted: the child is killed, exec rejects
SxSignalAborted(s) == s.killed \/ (s.shared /\ aborted)

\* execAsync resolved: clearTimeout(timeoutId); return result.stdout.trim()
SxResolved(s) == [s EXCEPT !.phase = "returned", !.timer = FALSE, !.result = "out"]

\* execAsync rejected: catch { return null }; the timer is not cleared
SxRejected(s) == [s EXCEPT !.phase = "returned", !.timer = FALSE, !.result = "null"]

\* the timers that stay armed after a rejected safeExec on the session's controller
SxLeak(s) == IF s.timer /\ s.shared THEN 1 ELSE 0

SafeExecSteps == {"w_git", "w_cmake", "w_cc1", "w_cc2", "w_configure", "w_compile",
                  "w_chmod"}
ExecWaitSteps == {"x_wait", "w_clone_wait", "w_script_wait"}

\* A settled promise resumes its awaiting caller in a microtask, before the
\* event loop runs any further timer, signal or child-process event.
ContinuationPending ==
  \/ pc \in ExecWaitSteps /\ Settled(proc.promise)
  \/ pc \in SafeExecSteps /\ sx.phase = "returned"

EventLoopTurn == Alive /\ ~ContinuationPending

\* handleInterrupt of runInteractiveSetup: SIGINT / SIGTERM
Interrupt ==
  /\ EventLoopTurn
  /\ SignalAbort("interrupt")
  /\ UNCHANGED <<size, childOut, dep, rec, hw, auto, log, platform, dl, fs, pc, spinner, exit, cc1ok, sx, leaked, observed>>

\* the child of safeExec exits with code 0
SafeExecResolve ==
  /\ EventLoopTurn
  /\ sx.phase = "running"
  /\ ~SxSignalAborted(sx)
  /\ sx' = SxResolved(sx)
  /\ \E made \in BOOLEAN :
       fs' = IF pc = "w_compile" /\ made THEN fs \cup {"exe"} ELSE fs
  /\ UNCHANGED <<size, childOut, dep, rec, hw, auto, log, platform, dl, aborted, abortCause, pc, spinner, exit, cc1ok, leaked,
                 proc, observed>>

\* the child of safeExec fails, or was killed through the signal
SafeExecReject ==
  /\ EventLoopTurn
  /\ sx.phase = "running"
  /\ sx' = SxRejected(sx)
  /\ leaked' = leaked + SxLeak(sx)
  /\ UNCHANGED <<size, childOut, dep, rec, hw, auto, log, platform, dl, aborted, abortCause, fs, pc, spinner, exit, cc1ok, proc,
                 observed>>

\* the timeout of the running safeExec elapses: controller.abort()
SafeExecTimeout ==
  /\ EventLoopTurn
  /\ sx.phase = "running"
  /\ sx.timer
  /\ sx' = [sx EXCEPT !.timer = FALSE, !.killed = TRUE]
  /\ IF sx.shared THEN SignalAbort("timeout")
                  ELSE UNCHANGED <<aborted, abortCause, proc>>
  /\ UNCHANGED <<size, childOut, dep, rec, hw, auto, log, platform, dl, fs, pc, spinner, exit, cc1ok, leaked, observed>>

\* the timer of a safeExec that already returned null elapses: controller.abort()
LeakedTimerFires ==
  /\ EventLoopTurn
  /\ leaked > 0
  /\ leaked' = leaked - 1
  /\ SignalAbort("timeout")
  /\ UNCHANGED <<size, childOut, dep, rec, hw, auto, log, platform, dl, fs, pc, spinner, exit, cc1ok, sx, observed>>

-----------------------------------------------------------------------------
(* Events of the child process spawned by execCommand.                     *)

\* what the child leaves on disk when it closes
ProcFsEffect(step, code, partial) ==
  CASE step = "clone" /\ code = "0" -> fs \cup {"repo"}
    [] step = "clone" /\ code # "0" /\ partial -> fs \cup {"repo"}
    [] step = "script" /\ code = "0" -> fs \cup {"tinyModel"}
    [] OTHER -> fs

ProcTimer ==
  /\ EventLoopTurn
  /\ proc.timer
  /\ proc' = TimerHandler(MarkFirst(proc, "timer"))
  /\ UNCHANGED <<size, childOut, dep, rec, hw, auto, log, platform, dl, aborted, abortCause, fs, pc, spinner, exit, cc1ok, sx,
                 leaked, observed>>

ProcClose ==
  /\ EventLoopTurn
  /\ proc.phase = "running"
  /\ \E code \in {"0", "1", "null"}, partial \in BOOLEAN :
       /\ code = "null" => proc.kills # {}
       /\ code = "0" => ~proc.errored
       /\ proc' = CloseHandler(MarkFirst(proc, IF code = "0" THEN "close0" ELSE "closeN"),
                               code)
       /\ fs' = ProcFsEffect(proc.step, code, partial)
  /\ UNCHANGED <<size, childOut, dep, rec, hw, auto, log, platform, dl, aborted, abortCause, pc, spinner, exit, cc1ok, sx, leaked,
                 observed>>

ProcError ==
  /\ EventLoopTurn
  /\ proc.phase = "running"
  /\ ~proc.errored
  /\ proc' = ErrorHandler(MarkFirst(proc, "error"))
  /\ UNCHANGED <<size, childOut, dep, rec, hw, auto, log, platform, dl, aborted, abortCause, fs, pc, spinner, exit, cc1ok, sx,
                 leaked, observed>>

\* setupProcessListeners: let stdout = ''; no callback was called
IdleOut == [stdout |-> <<>>, calls |-> <<>>]

\* the most characters a child writes
MaxOutput == 3

\* what one 'data' event can carry: a non-empty piece of the output, made of
\* a letter and the line terminator
Chunks == UNION {[1..n -> {"a", "\n"}] : n \in 1..MaxOutput}

\* process.stdout.on('data'): stdout += data.toString();
\* stdoutCallback?.({ line: data.toString() })  (stderr has the same listener)
DataListener(o, data) ==
  [o EXCEPT !.stdout = @ \o data, !.calls = Append(@, data)]

\* the child writes and the pipe delivers a chunk
ProcData ==
  /\ EventLoopTurn
  /\ proc.phase = "running"
  /\ ~proc.errored
  /\ \E data \in Chunks :
       /\ Len(childOut.stdout) + Len(data) <= MaxOutput
       /\ childOut' = DataListener(childOut, data)
  /\ UNCHANGED <<size, dep, rec, hw, auto, log, platform, dl, aborted, abortCause, fs, pc, spinner,
                 exit, cc1ok, sx, leaked, proc, observed>>

-----------------------------------------------------------------------------
(* A caller of execCommand that awaits the promise and goes on running.    *)

MaxCalls == 2

X_Call ==
  /\ Alive
  /\ pc = "x_call"
  /\ Len(observed) < MaxCalls
  /\ proc.phase \in {"idle", "closed"}
  /\ proc' = SpawnProc("x")
  /\ childOut' = IdleOut
  /\ pc' = "x_wait"
  /\ UNCHANGED <<size, dep, rec, hw, auto, log, platform, dl, aborted, abortCause, fs, spinner, exit, cc1ok, sx, leaked,
                 observed>>

X_Return ==
  /\ Alive
  /\ pc = "x_wait"
  /\ Settled(proc.promise)
  /\ observed' = Append(observed, proc.promise)
  /\ pc' = "x_call"
  /\ UNCHANGED <<size, childOut, dep, rec, hw, auto, log, platform, dl, aborted, abortCause, fs, spinner, exit, cc1ok, sx, leaked,
                 proc>>

\* the value undefined where a GPU record is expected
Undefined == [undefined |-> TRUE]

\* getWhisperRecommendations was not called
IdleRec ==
  [state |-> "idle",
   profile |-> [cpu |-> [cores |-> 0], memory |-> [total |-> 0], gpu |-> Undefined],
   result |-> [useGPU |-> FALSE, threads |-> 0, model |-> "none", backend |-> "none"]]

\* the keys of SystemDependencies
DepNames == {"git", "cmake", "compiler", "python", "make"}

\* checkDependencies is not running and its result was passed to no function
IdleDep ==
  [pc |-> "idle", deps |-> [t \in DepNames |-> Undefined], tried |-> <<>>,
   calls |-> {}, meets |-> FALSE, missing |-> <<>>]

\* detectHardware is not running
IdleHw == [os |-> "none", probes |-> <<>>, gpuQuery |-> <<>>,
           outcome |-> [state |-> "none", value |-> "none"]]

\* no invocation of runAutomaticInstallation
IdleAuto == [depth |-> 0, prompts |-> <<>>, selected |-> <<>>, reported |-> FALSE]

InitCommon ==
  /\ platform \in {"win32", "posix"}
  /\ aborted = FALSE
  /\ abortCause = NoCause
  /\ spinner = "none"
  /\ exit = [via |-> "none", code |-> -1, message |-> "none"]
  /\ cc1ok = FALSE
  /\ sx = IdleSx
  /\ leaked = 0
  /\ proc = IdleProc
  /\ observed = <<>>
  /\ dl = IdleDl
  /\ log = <<>>
  /\ auto = IdleAuto
  /\ hw = IdleHw
  /\ rec = IdleRec
  /\ dep = IdleDep
  /\ childOut = IdleOut
  /\ size = <<>>

InitExec == InitCommon /\ fs = {} /\ pc = "x_call"

NextExec ==
  X_Call \/ X_Return \/ Interrupt \/ ProcTimer \/ ProcClose \/ ProcError \/ ProcData

SpecExec == InitExec /\ [][NextExec]_vars

-----------------------------------------------------------------------------
(* installer/checkApp.ts: the detection predicates over the paths f.       *)

\* a detection that looks for the model file instead of the executable
CheckWhisperCppInstalled_ByModel(f) == "baseModel" \in f

\* checkWhisperCppInstalled: checkFileExists(WHISPER_CPP_EXECUTABLE_PATH)
CheckWhisperCppInstalled(f) == "exe" \in f

\* a detection that looks for the install directory instead of the executable
CheckYtDlpInstalled_ByDir(f) == "ytDir" \in f

\* checkYtDlpInstalled(): checkFileExists(YTDLP_INSTALL_DIR/<executable name>)
CheckYtDlpInstalled(f) == "ytExe" \in f

-----------------------------------------------------------------------------
(* executeWhisperInstallation (installer/installationWhisper.ts).          *)

\* the filesystem states an earlier run can have left behind
InitialFs ==
  { {},
    {"installDir"},
    {"installDir", "repo"},
    {"installDir", "repo", "buildDir"},
    {"installDir", "repo", "buildDir", "exe"},
    {"installDir", "repo", "buildDir", "baseModel"},
    {"installDir", "repo", "buildDir", "exe", "tinyModel"} }

\* the catch block of executeWhisperInstallation (spinner.fail() is in Throw)
CatchInstall(error) ==
  IF error.name = "AbortError"
    THEN QuickExit("installation cancelled by user")
    ELSE QuickError("installation failed")

\* a throw inside the try block: control reaches the catch block at once
Throw(error) ==
  /\ spinner' = "failed"
  /\ exit' = CatchInstall(error)
  /\ UNCHANGED pc

\* if (abortController?.signal.aborted) throw new Error('AbortError'), else go on;
\* after downloadBaseModel the next statement is spinner.succeed(...)
CheckAbortedThen(next) ==
  IF aborted
    THEN Throw(ThrownAbortError)
    ELSE /\ pc' = next
         /\ spinner' = IF next = "w_done" THEN "succeeded" ELSE spinner
         /\ UNCHANGED exit

\* const isInstalled = await checkWhisperCppInstalled(); if (isInstalled) return
W_CheckInstalled ==
  /\ Alive
  /\ pc = "w_start"
  /\ IF CheckWhisperCppInstalled(fs)
       THEN pc' = "w_skipped" /\ UNCHANGED spinner
       ELSE pc' = "w_mkdir" /\ spinner' = "running"
  /\ UNCHANGED <<size, childOut, dep, rec, hw, auto, log, platform, dl, aborted, abortCause, fs, exit, cc1ok, sx, leaked, proc,
                 observed>>

\* safeRun(fs.mkdir(WHISPER_CPP_INSTALL_DIR)), then checkBuildTools: git
W_Mkdir ==
  /\ Alive
  /\ pc = "w_mkdir"
  /\ \E ok \in BOOLEAN :
       IF ok
         THEN /\ fs' = fs \cup {"installDir"}
              /\ pc' = "w_git"
              /\ sx' = SxCall(FALSE)
              /\ log' = log \o <<"mkdir", "probe">>
              /\ UNCHANGED exit
         ELSE /\ exit' = QuickError("cannot create the install directory")
              /\ log' = Append(log, "mkdir")
              /\ UNCHANGED <<fs, pc, sx>>
  /\ UNCHANGED <<size, childOut, dep, rec, hw, auto, platform, dl, aborted, abortCause, spinner, cc1ok, leaked, proc, observed>>

\* a checkBuildTools that runs the probes and ignores what they return
W_ToolChecked_IgnoresResult ==
  /\ Alive
  /\ pc \in {"w_git", "w_cmake", "w_cc1", "w_cc2"}
  /\ sx.phase = "returned"
  /\ IF pc = "w_cc2" \/ (pc = "w_cc1" /\ platform # "win32" /\ sx.result # "null")
       THEN pc' = "w_cloneCheck" /\ sx' = IdleSx /\ UNCHANGED log
       ELSE /\ pc' = (CASE pc = "w_git" -> "w_cmake"
                         [] pc = "w_cmake" -> "w_cc1"
                         [] OTHER -> "w_cc2")
            /\ sx' = SxCall(FALSE)
            /\ log' = Append(log, "probe")
  /\ cc1ok' = IF pc = "w_cc1" THEN sx.result # "null" ELSE cc1ok
  /\ UNCHANGED <<size, childOut, dep, rec, hw, auto, platform, dl, aborted, abortCause, fs, leaked, observed, exit,
                 proc, spinner>>

\* checkBuildTools after each probe returned
W_ToolChecked ==
  /\ Alive
  /\ pc \in {"w_git", "w_cmake", "w_cc1", "w_cc2"}
  /\ sx.phase = "returned"
  /\ LET found == sx.result # "null"
         missing(msg) == /\ exit' = QuickError(msg)
                         /\ sx' = IdleSx
                         /\ UNCHANGED <<pc, cc1ok, proc, spinner, log>>
         probe(next) == /\ pc' = next
                        /\ sx' = SxCall(FALSE)
                        /\ log' = Append(log, "probe")
                        /\ UNCHANGED <<exit, proc, spinner>>
         \* cloneWhisperRepo: await checkFileExists(repoPath)
         clone == /\ pc' = "w_cloneCheck"
                  /\ sx' = IdleSx
                  /\ UNCHANGED <<exit, cc1ok, proc, spinner, log>>
     IN CASE pc = "w_git" ->
               IF found THEN probe("w_cmake") /\ UNCHANGED cc1ok
                        ELSE missing("Git is not installed")
          [] pc = "w_cmake" ->
               IF found THEN probe("w_cc1") /\ UNCHANGED cc1ok
                        ELSE missing("CMake is not installed")
          [] pc = "w_cc1" ->
               IF platform = "win32" \/ ~found
                 THEN probe("w_cc2") /\ cc1ok' = found
                 ELSE clone
          [] pc = "w_cc2" ->
               IF found \/ (platform = "win32" /\ cc1ok)
                 THEN clone
                 ELSE missing("no compiler is installed")
  /\ UNCHANGED <<size, childOut, dep, rec, hw, auto, platform, dl, aborted, abortCause, fs, leaked, observed>>

\* a cloneWhisperRepo that clones without looking at the directory
W_CloneCheck_AlwaysClones ==
  /\ Alive
  /\ pc = "w_cloneCheck"
  /\ proc' = SpawnProc("clone")
  /\ pc' = "w_clone_wait"
  /\ log' = Append(log, "clone")
  /\ UNCHANGED <<size, childOut, dep, rec, hw, auto, platform, dl, aborted, abortCause, fs, cc1ok, sx, leaked, observed,
                 spinner, exit>>

\* cloneWhisperRepo after checkFileExists(repoPath)
W_CloneCheck ==
  /\ Alive
  /\ pc = "w_cloneCheck"
  /\ IF "repo" \in fs
       THEN CheckAbortedThen("w_mkbuild") /\ UNCHANGED <<proc, log>>
       ELSE /\ proc' = SpawnProc("clone")
            /\ pc' = "w_clone_wait"
            /\ log' = Append(log, "clone")
            /\ UNCHANGED <<spinner, exit>>
  /\ UNCHANGED <<size, childOut, dep, rec, hw, auto, platform, dl, aborted, abortCause, fs, cc1ok, sx, leaked, observed>>

\* the await of execCommand resumes (git clone, or the model download script)
W_ExecReturn ==
  /\ Alive
  /\ pc \in {"w_clone_wait", "w_script_wait"}
  /\ Settled(proc.promise)
  /\ observed' = Append(observed, proc.promise)
  /\ IF proc.promise.state = "fulfilled"
       THEN /\ proc' = IdleProc
            /\ CheckAbortedThen(IF pc = "w_clone_wait" THEN "w_mkbuild" ELSE "w_done")
       ELSE /\ Throw(proc.promise.error)
            /\ UNCHANGED proc
  /\ UNCHANGED <<size, childOut, dep, rec, hw, auto, log, platform, dl, aborted, abortCause, fs, cc1ok, sx, leaked>>

\* buildWhisperCpp: safeRun(fs.mkdir(buildPath)), then safeExec('cmake -B build')
W_MkBuild ==
  /\ Alive
  /\ pc = "w_mkbuild"
  /\ \E ok \in BOOLEAN :
       IF ok
         THEN /\ fs' = fs \cup {"buildDir"}
              /\ pc' = "w_configure"
              /\ sx' = SxCall(TRUE)
              /\ log' = log \o <<"mkbuild", "configure">>
              /\ UNCHANGED exit
         ELSE /\ exit' = QuickError("cannot create the build directory")
              /\ log' = Append(log, "mkbuild")
              /\ UNCHANGED <<fs, pc, sx>>
  /\ UNCHANGED <<size, childOut, dep, rec, hw, auto, platform, dl, aborted, abortCause, spinner, cc1ok, leaked, proc, observed>>

\* the configure step returned (its result is only printed): start the compile
W_Configured ==
  /\ Alive
  /\ pc = "w_configure"
  /\ sx.phase = "returned"
  /\ pc' = "w_compile"
  /\ sx' = SxCall(TRUE)
  /\ log' = Append(log, "compile")
  /\ UNCHANGED <<size, childOut, dep, rec, hw, auto, platform, dl, aborted, abortCause, fs, spinner, exit, cc1ok, leaked, proc,
                 observed>>

\* the compile step returned: the abort check, then await checkFileExists(exe)
W_Compiled ==
  /\ Alive
  /\ pc = "w_compile"
  /\ sx.phase = "returned"
  /\ sx' = IdleSx
  /\ CheckAbortedThen("w_verify")
  /\ log' = IF aborted THEN log ELSE Append(log, "verify")
  /\ UNCHANGED <<size, childOut, dep, rec, hw, auto, platform, dl, aborted, abortCause, fs, cc1ok, leaked, proc, observed>>

\* a buildWhisperCpp that does not look for the executable
W_Verify_NoCheck ==
  /\ Alive
  /\ pc = "w_verify"
  /\ pc' = "w_modelCheck"
  /\ UNCHANGED <<size, childOut, dep, rec, hw, auto, log, platform, dl, aborted, abortCause, fs, cc1ok, sx, leaked, proc,
                 observed, spinner, exit>>

\* if (!buildSuccess) throw; then downloadBaseModel: await checkFileExists(model)
W_Verify ==
  /\ Alive
  /\ pc = "w_verify"
  /\ IF "exe" \in fs
       THEN pc' = "w_modelCheck" /\ UNCHANGED <<spinner, exit>>
       ELSE Throw(BuildFailedError)
  /\ UNCHANGED <<size, childOut, dep, rec, hw, auto, log, platform, dl, aborted, abortCause, fs, cc1ok, sx, leaked, proc, observed>>

\* downloadBaseModel after checkFileExists(ggml-base.en.bin)
W_ModelCheck ==
  /\ Alive
  /\ pc = "w_modelCheck"
  /\ IF "baseModel" \in fs
       THEN CheckAbortedThen("w_done") /\ UNCHANGED <<sx, proc, log>>
       ELSE IF platform = "win32"
              THEN /\ proc' = SpawnProc("script")
                   /\ pc' = "w_script_wait"
                   /\ log' = Append(log, "script")
                   /\ UNCHANGED <<sx, spinner, exit>>
              ELSE /\ sx' = SxCall(TRUE)
                   /\ pc' = "w_chmod"
                   /\ log' = Append(log, "chmod")
                   /\ UNCHANGED <<proc, spinner, exit>>
  /\ UNCHANGED <<size, childOut, dep, rec, hw, auto, platform, dl, aborted, abortCause, fs, cc1ok, leaked, observed>>

\* chmod +x returned: executeDownloadScript
W_Chmodded ==
  /\ Alive
  /\ pc = "w_chmod"
  /\ sx.phase = "returned"
  /\ sx' = IdleSx
  /\ proc' = SpawnProc("script")
  /\ pc' = "w_script_wait"
  /\ log' = Append(log, "script")
  /\ UNCHANGED <<size, childOut, dep, rec, hw, auto, platform, dl, aborted, abortCause, fs, spinner, exit, cc1ok, leaked,
                 observed>>

Init == InitCommon /\ fs \in InitialFs /\ pc = "w_start"

Next ==
  \/ W_CheckInstalled \/ W_Mkdir \/ W_ToolChecked \/ W_CloneCheck \/ W_ExecReturn
  \/ W_MkBuild \/ W_Configured \/ W_Compiled \/ W_Verify \/ W_ModelCheck
  \/ W_Chmodded
  \/ Interrupt \/ SafeExecResolve \/ SafeExecReject \/ SafeExecTimeout
  \/ LeakedTimerFires \/ ProcTimer \/ ProcClose \/ ProcError

Spec == Init /\ [][Next]_vars

-----------------------------------------------------------------------------
(* executeYtDlpInstallation and downloadYtDlp (installer/installationYtDlp.ts), *)
(* with the events of the download.                                        *)

execVars == <<cc1ok, sx, leaked, proc, observed>>

\* the catch block of downloadYtDlp
CatchDownload(error) ==
  IF error.name = "AbortError"
    THEN QuickExit("installation cancelled by user")
    ELSE QuickError("download failed")

\* the awaited downloadFile moves to state d; a failure is thrown into the catch
DownloadStep(d) ==
  /\ dl' = d
  /\ exit' = IF d.phase = "failed" THEN CatchDownload(d.error) ELSE exit

\* const isInstalled = await checkYtDlpInstalled(); if (isInstalled) return
Y_CheckInstalled ==
  /\ Alive
  /\ pc = "y_start"
  /\ IF CheckYtDlpInstalled(fs)
       THEN pc' = "y_skipped" /\ UNCHANGED spinner
       ELSE pc' = "y_mkdir" /\ spinner' = "running"
  /\ UNCHANGED <<size, childOut, dep, rec, hw, auto, log, platform, dl, aborted, abortCause, fs, exit, execVars>>

\* safeRun(fs.mkdir(YTDLP_INSTALL_DIR)), then downloadYtDlp calls downloadFile
Y_Mkdir ==
  /\ Alive
  /\ pc = "y_mkdir"
  /\ \E ok \in BOOLEAN :
       IF ok
         THEN /\ fs' = fs \cup {"ytDir"}
              /\ pc' = "y_download"
              /\ DownloadStep(DownloadEntry(dl, aborted))
              /\ log' = IF DownloadEntry(dl, aborted).fetched
                           THEN log \o <<"y_mkdir", "fetch">>
                           ELSE Append(log, "y_mkdir")
         ELSE /\ exit' = QuickError("cannot create the install directory")
              /\ log' = Append(log, "y_mkdir")
              /\ UNCHANGED <<fs, pc, dl>>
  /\ UNCHANGED <<size, childOut, dep, rec, hw, auto, platform, aborted, abortCause, spinner, execVars>>

\* fetch resolves with a response
D_Response ==
  /\ Alive
  /\ dl.phase = "fetching"
  /\ ~aborted
  /\ \E ok \in BOOLEAN, hasBody \in BOOLEAN, contentLength \in 0..MaxSize,
        bodyLen \in 0..MaxSize :
       DownloadStep(PollAborted(ResponseChecked(dl, ok, contentLength, hasBody, bodyLen),
                                aborted))
  /\ UNCHANGED <<size, childOut, dep, rec, hw, auto, log, platform, aborted, abortCause, fs, pc, spinner, execVars>>

\* fetch or reader.read() rejects: the network failed
D_NetworkFails ==
  /\ Alive
  /\ dl.phase \in {"fetching", "reading"}
  /\ DownloadStep(DlFail(dl, NetworkError))
  /\ UNCHANGED <<size, childOut, dep, rec, hw, auto, log, platform, aborted, abortCause, fs, pc, spinner, execVars>>

\* the signal bound to the request is aborted: fetch or reader.read() rejects
D_AbortRejects ==
  /\ Alive
  /\ dl.phase \in {"fetching", "reading"}
  /\ aborted
  /\ DownloadStep(DlFail(dl, FetchAbortError))
  /\ UNCHANGED <<size, childOut, dep, rec, hw, auto, log, platform, aborted, abortCause, fs, pc, spinner, execVars>>

\* reader.read() resolves with a chunk; the loop polls the signal and reads on
D_Chunk ==
  /\ Alive
  /\ dl.phase = "reading"
  /\ ~aborted
  /\ \E n \in 1..dl.remaining :
       DownloadStep(PollAborted(ChunkRead(dl, n), aborted))
  /\ UNCHANGED <<size, childOut, dep, rec, hw, auto, log, platform, aborted, abortCause, fs, pc, spinner, execVars>>

\* reader.read() resolves with done
D_StreamEnd ==
  /\ Alive
  /\ dl.phase = "reading"
  /\ ~aborted
  /\ dl.remaining = 0
  /\ DownloadStep(StreamDone(dl, aborted))
  /\ log' = IF StreamDone(dl, aborted).phase = "writing" THEN Append(log, "write") ELSE log
  /\ UNCHANGED <<size, childOut, dep, rec, hw, auto, platform, aborted, abortCause, fs, pc, spinner, execVars>>

\* a makeExecutable that changes the mode on every platform
MakeExecutableApplies_Everywhere(plat) == TRUE

\* makeExecutable: if (process.platform === 'win32') return
MakeExecutableApplies(plat) == plat # "win32"

\* fs.writeFile settles; on success makeExecutable(path): nothing on win32,
\* chmod elsewhere; then spinner.succeed
D_WriteSettles ==
  /\ Alive
  /\ dl.phase = "writing"
  /\ \E result \in {"complete", "partial", "untouched"} :
       IF result = "complete"
         THEN /\ DownloadStep([dl EXCEPT !.phase = "done", !.dest = "complete"])
              /\ fs' = fs \cup {"ytExe"}
              /\ IF ~MakeExecutableApplies(platform)
                   THEN pc' = "y_done" /\ spinner' = "succeeded" /\ UNCHANGED log
                   ELSE /\ pc' = "y_chmod"
                        /\ log' = Append(log, "y_chmod")
                        /\ UNCHANGED spinner
         ELSE /\ DownloadStep(DlFail([dl EXCEPT !.dest = result], WriteError))
              /\ fs' = IF result = "partial" THEN fs \cup {"ytExe"} ELSE fs
              /\ UNCHANGED <<pc, spinner, log>>
  /\ UNCHANGED <<size, childOut, dep, rec, hw, auto, platform, aborted, abortCause, execVars>>

\* makeExecutable: safeRun(chmod(filepath, 0o755)), then spinner.succeed
Y_Chmod ==
  /\ Alive
  /\ pc = "y_chmod"
  /\ \E ok \in BOOLEAN :
       IF ok
         THEN pc' = "y_done" /\ spinner' = "succeeded" /\ UNCHANGED exit
         ELSE exit' = QuickError("cannot set the permission") /\ UNCHANGED <<pc, spinner>>
  /\ UNCHANGED <<size, childOut, dep, rec, hw, auto, log, platform, dl, aborted, abortCause, fs, execVars>>

InitDownload == InitCommon /\ fs \in {{}, {"ytDir"}, {"ytDir", "ytExe"}} /\ pc = "y_start"

NextDownload ==
  \/ Y_CheckInstalled \/ Y_Mkdir \/ Y_Chmod
  \/ D_Response \/ D_NetworkFails \/ D_AbortRejects \/ D_Chunk \/ D_StreamEnd
  \/ D_WriteSettles \/ Interrupt

SpecDownload == InitDownload /\ [][NextDownload]_vars

-----------------------------------------------------------------------------
(* runAutomaticInstallation (installer/automatic.ts, the revision that     *)
(* offers both targets) on top of the two installers.                      *)

MaxDepth == 4

Targets == {"yt-dlp", "whisper"}

\* a check that always finds the speech engine missing
CheckAppInstalled_WhisperNeverFound(f) ==
  [isYtDlpExists |-> CheckYtDlpInstalled(f), isWhisperCppExists |-> FALSE]

\* checkAppInstalled: Promise.all of the two detections; the version queries
\* that follow run safeExec on a controller of their own and are only printed
CheckAppInstalled(f) ==
  [isYtDlpExists |-> CheckYtDlpInstalled(f),
   isWhisperCppExists |-> CheckWhisperCppInstalled(f)]

\* the condition of the superseded revision, which looks at yt-dlp only
AllInstalled_YtDlpOnly(isYtDlpExists, isWhisperCppExists) == isYtDlpExists

\* the else branch of if (!isYtDlpExists || !isWhisperCppExists)
AllInstalled(isYtDlpExists, isWhisperCppExists) ==
  ~(~isYtDlpExists \/ ~isWhisperCppExists)

\* a menu that offers every target
BuildInstallationChoices_All(isYtDlpExists, isWhisperCppExists) == Targets

\* buildInstallationChoices
BuildInstallationChoices(isYtDlpExists, isWhisperCppExists) ==
  (IF ~isYtDlpExists THEN {"yt-dlp"} ELSE {})
    \cup (IF ~isWhisperCppExists THEN {"whisper"} ELSE {})

\* a call of runAutomaticInstallation up to await checkAppInstalled()
EnterAuto(a) == [a EXCEPT !.depth = @ + 1]

\* checkAppInstalled() resolved: the status is displayed, then either the
\* menu is shown (await promptInstallation) or 'all installed' is printed
A_Checked ==
  /\ Alive
  /\ pc = "a_checking"
  /\ LET r == CheckAppInstalled(fs)
     IN IF AllInstalled(r.isYtDlpExists, r.isWhisperCppExists)
          THEN /\ pc' = "a_done"
               /\ auto' = [auto EXCEPT !.reported = TRUE]
          ELSE /\ pc' = "a_prompt"
               /\ auto' = [auto EXCEPT !.prompts =
                             Append(@, BuildInstallationChoices(r.isYtDlpExists,
                                                                r.isWhisperCppExists))]
  /\ UNCHANGED <<size, childOut, dep, rec, hw, log, platform, dl, aborted, abortCause, fs, spinner, exit, execVars>>

\* the user picks an entry of the menu: executeAppInstallation calls the
\* installer, which runs up to the await of its own detection
A_Select ==
  /\ Alive
  /\ pc = "a_prompt"
  /\ \E appName \in auto.prompts[Len(auto.prompts)] :
       /\ auto' = [auto EXCEPT !.selected = Append(@, appName)]
       /\ pc' = IF appName = "yt-dlp" THEN "y_start" ELSE "w_start"
  /\ UNCHANGED <<size, childOut, dep, rec, hw, log, platform, dl, aborted, abortCause, fs, spinner, exit, execVars>>

\* the installer returned (the locals of its downloadFile call are gone):
\* runAutomaticInstallation calls itself
A_InstallReturned ==
  /\ Alive
  /\ pc \in {"y_done", "y_skipped", "w_done", "w_skipped"}
  /\ auto.depth < MaxDepth
  /\ auto' = EnterAuto(auto)
  /\ pc' = "a_checking"
  /\ dl' = IdleDl
  /\ UNCHANGED <<size, childOut, dep, rec, hw, log, platform, aborted, abortCause, fs, spinner, exit, execVars>>

\* the paths an earlier run can have left under the yt-dlp install directory
InitialYtFs == {{}, {"ytDir"}, {"ytDir", "ytExe"}}

InitAuto ==
  /\ platform \in {"win32", "posix"}
  /\ aborted = FALSE
  /\ abortCause = NoCause
  /\ spinner = "none"
  /\ exit = [via |-> "none", code |-> -1, message |-> "none"]
  /\ cc1ok = FALSE
  /\ sx = IdleSx
  /\ leaked = 0
  /\ proc = IdleProc
  /\ observed = <<>>
  /\ dl = IdleDl
  /\ log = <<>>
  /\ auto = EnterAuto(IdleAuto)
  /\ hw = IdleHw
  /\ rec = IdleRec
  /\ dep = IdleDep
  /\ childOut = IdleOut
  /\ size = <<>>
  /\ fs \in {w \cup y : w \in InitialFs, y \in InitialYtFs}
  /\ pc = "a_checking"

NextAuto == A_Checked \/ A_Select \/ A_InstallReturned \/ Next \/ NextDownload

\* every pending operation settles and every prompt is answered
SpecAuto == InitAuto /\ [][NextAuto]_vars /\ WF_vars(NextAuto)

-----------------------------------------------------------------------------
(* Either installer called directly, whatever an earlier run left on disk. *)

InitInstall ==
  /\ InitCommon
  /\ fs \in {w \cup y : w \in InitialFs, y \in InitialYtFs}
  /\ pc \in {"w_start", "y_start"}

NextInstall == Next \/ NextDownload

SpecInstall == InitInstall /\ [][NextInstall]_vars

-----------------------------------------------------------------------------
(* detectHardware (installer/detectHardware.ts).                           *)

ProbeNames == {"cpu", "memory", "gpu", "disk", "platform"}

PendingProbe == [state |-> "pending", value |-> "none"]
FulfilledProbe(v) == [state |-> "fulfilled", value |-> v]
RejectedProbe == [state |-> "rejected", value |-> "none"]

\* getDefaultCPU (architecture and frequency left out)
DefaultCPU == [model |-> "unknown", cores |-> 1, threads |-> 1]

\* getDefaultMemory
DefaultMemory == [total |-> 0, available |-> 0, usage |-> 0]

\* getDefaultDisk
DefaultDisk == [available |-> 0, total |-> 0, usage |-> 0]

\* getDefaultPlatform: os.platform(), os.release(), os.arch()
DefaultPlatform(os) == [os |-> os, version |-> "release", architecture |-> "arch"]

\* the null of safeExec, where a text (a sequence of characters) is expected
Null == <<"null">>

\* the truthiness of a string | null
Truthy(text) == text # Null /\ text # <<>>

\* the value of a decimal digit; any other character is no digit
DigitValue(c) ==
  CASE c = "0" -> 0 [] c = "1" -> 1 [] c = "2" -> 2 [] c = "3" -> 3 [] c = "4" -> 4
    [] c = "5" -> 5 [] c = "6" -> 6 [] c = "7" -> 7 [] c = "8" -> 8 [] c = "9" -> 9
    [] OTHER -> -1

\* String.prototype.trim
RECURSIVE Trim(_)
Trim(text) ==
  IF text # <<>> /\ Head(text) \in {" ", "\n", "\t"} THEN Trim(Tail(text))
  ELSE IF text # <<>> /\ text[Len(text)] \in {" ", "\n", "\t"}
    THEN Trim(SubSeq(text, 1, Len(text) - 1))
    ELSE text

\* the longest prefix of decimal digits
RECURSIVE DigitPrefix(_)
DigitPrefix(text) ==
  IF text # <<>> /\ DigitValue(Head(text)) >= 0
    THEN <<Head(text)>> \o DigitPrefix(Tail(text))
    ELSE <<>>

RECURSIVE DecimalValue(_)
DecimalValue(digits) ==
  IF digits = <<>> THEN 0
  ELSE 10 * DecimalValue(SubSeq(digits, 1, Len(digits) - 1))
       + DigitValue(digits[Len(digits)])

\* safeParseInt: Number.parseInt(value.trim(), 10) reads an optional sign and
\* the digits that follow; NaN (no digit) gives the default
SafeParseInt(value, defaultValue) ==
  IF ~Truthy(value) THEN defaultValue
  ELSE LET text == Trim(value)
           signed == text # <<>> /\ Head(text) \in {"-", "+"}
           digits == DigitPrefix(IF signed THEN Tail(text) ELSE text)
       IN IF digits = <<>> THEN defaultValue
          ELSE IF signed /\ Head(text) = "-" THEN 0 - DecimalValue(digits)
          ELSE DecimalValue(digits)

\* os.cpus().length: the logical processors, or 0 where the list is empty
CpusLengths == {0, 4}

\* the record detectCPU starts from (architecture and frequency left out)
BaselineCPU(n) ==
  [model |-> IF n > 0 THEN "cpu model" ELSE "unknown", cores |-> n, threads |-> n]

\* no output of any query: every safeExec returned null
NoCpuQuery ==
  [brand |-> Null, core |-> Null, thread |-> Null, proc |-> Null,
   lscpu |-> [ran |-> FALSE, model |-> Null, cores |-> Null, sockets |-> Null]]

\* the (trimmed) outputs of the queries of detectCPU on a platform; for lscpu
\* the captures of the three patterns, Null where a pattern does not match
CpuQueries(os) ==
  CASE os = "darwin" ->
         {[NoCpuQuery EXCEPT !.brand = b, !.core = c, !.thread = t] :
            b \in {Null, <<"M">>}, c \in {Null, <<"8">>}, t \in {Null, <<"1", "6">>}}
    [] os = "linux" ->
         {[NoCpuQuery EXCEPT !.lscpu = l, !.proc = f] :
            l \in {NoCpuQuery.lscpu} \cup [ran : {TRUE}, model : {Null, <<"L">>},
                                  cores : {Null, <<"4">>}, sockets : {Null, <<"2">>}],
            f \in {Null, <<"P">>}}
    [] OTHER -> {NoCpuQuery}

\* detectMacOSCPU: sysctl -n machdep.cpu.brand_string, hw.physicalcpu, hw.logicalcpu
DetectMacOSCPU(cpu, q) ==
  LET named == IF Truthy(q.brand) THEN [cpu EXCEPT !.model = "brand string"] ELSE cpu
  IN IF Truthy(q.core) /\ Truthy(q.thread)
       THEN [named EXCEPT !.cores = SafeParseInt(q.core, 0),
                          !.threads = SafeParseInt(q.thread, 0)]
       ELSE named

\* detectLinuxCPUFromProc: the model name line of /proc/cpuinfo
DetectLinuxCPUFromProc(cpu, q) ==
  IF Truthy(q.proc) THEN [cpu EXCEPT !.model = "proc model"] ELSE cpu

\* detectLinuxCPU: lscpu, else /proc/cpuinfo
DetectLinuxCPU(cpu, q) ==
  IF q.lscpu.ran
    THEN LET named == IF q.lscpu.model # Null
                        THEN [cpu EXCEPT !.model = "lscpu model"] ELSE cpu
         IN IF q.lscpu.cores # Null /\ q.lscpu.sockets # Null
              THEN [named EXCEPT !.cores = SafeParseInt(q.lscpu.cores, 0)
                                           * SafeParseInt(q.lscpu.sockets, 0)]
              ELSE named
    ELSE DetectLinuxCPUFromProc(cpu, q)

\* detectCPU: the baseline of os.cpus(), enriched on macOS and Linux
DetectCPU(os, n, q) ==
  CASE os = "darwin" -> DetectMacOSCPU(BaselineCPU(n), q)
    [] os = "linux" -> DetectLinuxCPU(BaselineCPU(n), q)
    [] OTHER -> BaselineCPU(n)

\* what detectMemory can return
MemoryResults ==
  { [total |-> 16, available |-> 8, usage |-> 50],
    [total |-> 1, available |-> 0, usage |-> 90] }

\* the initial record of detectGPU (model and memory left out)
InitialGPU ==
  [available |-> FALSE, vendor |-> "undefined", opencl |-> FALSE, cuda |-> FALSE,
   metal |-> FALSE]

\* the answers of the queries: safeExec returned null, an output without
\* the expected line, or an output with it
QueryOutputs == {"null", "plain", "match"}

\* detectMacOSGPU: system_profiler SPDisplaysDataType
DetectMacOSGPU(g, out) ==
  IF out = "null" THEN [g EXCEPT !.metal = TRUE]
  ELSE IF out = "match"
    THEN [g EXCEPT !.available = TRUE, !.vendor = "Apple", !.metal = TRUE]
    ELSE g

\* detectLinuxOtherGPU: lspci | grep -i vga
DetectLinuxOtherGPU(g, lspci) ==
  IF lspci # "null" THEN [g EXCEPT !.available = TRUE, !.vendor = "Intel"] ELSE g

\* detectLinuxGPU: nvidia-smi, else lspci; then clinfo
DetectLinuxGPU(g, nvidia, lspci, clinfo) ==
  LET found == IF nvidia # "null"
                 THEN [g EXCEPT !.available = TRUE, !.vendor = "NVIDIA", !.cuda = TRUE]
                 ELSE DetectLinuxOtherGPU(g, lspci)
  IN IF clinfo # "null" THEN [found EXCEPT !.opencl = TRUE] ELSE found

\* detectWindowsGPU: wmic path win32_VideoController
DetectWindowsGPU(g, out) ==
  IF out = "match" THEN [g EXCEPT !.available = TRUE, !.vendor = "AMD"] ELSE g

\* the record detectGPU holds after its try block; a throw leaves the initial one
GPURecord(os, q, threw) ==
  IF threw THEN InitialGPU
  ELSE CASE os = "darwin" -> DetectMacOSGPU(InitialGPU, q.main)
         [] os = "linux" -> DetectLinuxGPU(InitialGPU, q.main, q.lspci, q.clinfo)
         [] os = "win32" -> DetectWindowsGPU(InitialGPU, q.main)
         [] OTHER -> InitialGPU

\* a detectGPU that returns its record whatever it holds
DetectGPU_ReturnsRecord(os, q, threw) == GPURecord(os, q, threw)

\* detectGPU: return gpu.available ? gpu : undefined
DetectGPU(os, q, threw) ==
  IF GPURecord(os, q, threw).available THEN GPURecord(os, q, threw) ELSE Undefined

\* detectDisk: the platform's query inside try / catch; "threw", a null or a
\* short output give the zeros, as does a platform without a query
DetectDisk(os, out) ==
  IF os \in {"darwin", "linux", "win32"} /\ out = "match"
    THEN [available |-> 40, total |-> 100, usage |-> 60]
    ELSE [available |-> 0, total |-> 0, usage |-> 0]

\* detectPlatform
DetectPlatform(os) == [os |-> os, version |-> "release", architecture |-> "arch"]

\* a fail-fast await: Promise.all rejects with the first rejection
AwaitProbes_FailFast(probes) ==
  IF \E p \in ProbeNames : probes[p].state = "rejected" THEN "throw"
  ELSE IF \A p \in ProbeNames : probes[p].state = "fulfilled" THEN "resume"
  ELSE "wait"

\* await Promise.allSettled([...]): resumes when every probe has settled
AwaitProbes(probes) ==
  IF \A p \in ProbeNames : probes[p].state # "pending" THEN "resume" ELSE "wait"

\* x.status === 'fulfilled' ? x.value : <default>
ValueOrDefault(probe, default) ==
  IF probe.state = "fulfilled" THEN probe.value ELSE default

\* the HardwareInfo object detectHardware builds
Hardware(os, probes) ==
  [cpu |-> ValueOrDefault(probes["cpu"], DefaultCPU),
   memory |-> ValueOrDefault(probes["memory"], DefaultMemory),
   gpu |-> ValueOrDefault(probes["gpu"], Undefined),
   disk |-> ValueOrDefault(probes["disk"], DefaultDisk),
   platform |-> ValueOrDefault(probes["platform"], DefaultPlatform(os))]

\* detectHardware up to its await: the five probes are started
StartHw(os) ==
  [os |-> os, probes |-> [p \in ProbeNames |-> PendingProbe], gpuQuery |-> <<>>,
   outcome |-> [state |-> "pending", value |-> "none"]]

\* getWhisperRecommendations (installer/detectHardware.ts)

\* CONFIG.MAX_THREADS
MAX_THREADS == 8

\* CONFIG.MEMORY_THRESHOLDS, in GB
LARGE_MODEL == 8
MEDIUM_MODEL == 4
SMALL_MODEL == 2

\* a thread count that is the core count whatever it is
RecommendedThreads_Uncapped(cores) == IF cores >= 1 THEN cores ELSE 1

\* recommendations.threads = Math.max(1, Math.min(hardware.cpu.cores, MAX_THREADS))
RecommendedThreads(cores) ==
  LET least == IF cores <= MAX_THREADS THEN cores ELSE MAX_THREADS
  IN IF least >= 1 THEN least ELSE 1

\* a model choice that tests the smallest threshold first
RecommendedModel_SmallFirst(total) ==
  IF total >= SMALL_MODEL THEN "small"
  ELSE IF total >= MEDIUM_MODEL THEN "medium"
  ELSE IF total >= LARGE_MODEL THEN "large"
  ELSE "base"

\* the if / else-if chain on hardware.memory.total; 'base' is the initial value
RecommendedModel(total) ==
  IF total >= LARGE_MODEL THEN "large"
  ELSE IF total >= MEDIUM_MODEL THEN "medium"
  ELSE IF total >= SMALL_MODEL THEN "small"
  ELSE "base"

\* hardware.gpu?.available
GpuAvailable(gpu) == gpu # Undefined /\ gpu.available

\* a backend choice that tests metal before cuda
RecommendedBackend_MetalFirst(gpu) ==
  IF ~GpuAvailable(gpu) THEN "cpu"
  ELSE IF gpu.metal THEN "metal"
  ELSE IF gpu.cuda THEN "cuda"
  ELSE IF gpu.opencl THEN "opencl"
  ELSE "cpu"

\* the if / else-if chain on the flags of an available GPU; 'cpu' is the
\* initial value and stays when no flag is set
RecommendedBackend(gpu) ==
  IF ~GpuAvailable(gpu) THEN "cpu"
  ELSE IF gpu.cuda THEN "cuda"
  ELSE IF gpu.metal THEN "metal"
  ELSE IF gpu.opencl THEN "opencl"
  ELSE "cpu"

GetWhisperRecommendations(hardware) ==
  [useGPU |-> GpuAvailable(hardware.gpu),
   threads |-> RecommendedThreads(hardware.cpu.cores),
   model |-> RecommendedModel(hardware.memory.total),
   backend |-> RecommendedBackend(hardware.gpu)]

installerVars == <<platform, aborted, abortCause, fs, pc, spinner, exit, cc1ok, sx,
                   leaked, proc, observed, dl, log, auto, dep, childOut, size>>

SettleProbe(p, result) ==
  /\ hw.os # "none"
  /\ hw.probes[p].state = "pending"
  /\ hw' = [hw EXCEPT !.probes[p] = result]
  /\ UNCHANGED <<installerVars, rec>>

\* detectCPU settles; it rejects only if an os primitive throws
H_CpuSettles ==
  \E r \in {FulfilledProbe(DetectCPU(hw.os, n, q)) :
              n \in CpusLengths, q \in CpuQueries(hw.os)} \cup {RejectedProbe} :
    SettleProbe("cpu", r)

\* detectMemory settles; it rejects only if an os primitive throws
H_MemorySettles ==
  \E r \in {FulfilledProbe(v) : v \in MemoryResults} \cup {RejectedProbe} :
    SettleProbe("memory", r)

\* detectGPU settles
H_GpuSettles ==
  /\ hw.os # "none"
  /\ hw.probes["gpu"].state = "pending"
  /\ \E main \in QueryOutputs, lspci \in {"null", "match"}, clinfo \in {"null", "match"},
        threw \in BOOLEAN :
       LET q == [main |-> main, lspci |-> lspci, clinfo |-> clinfo, threw |-> threw]
       IN hw' = [hw EXCEPT !.probes["gpu"] = FulfilledProbe(DetectGPU(hw.os, q, threw)),
                           !.gpuQuery = q]
  /\ UNCHANGED <<installerVars, rec>>

\* detectDisk settles
H_DiskSettles ==
  \E out \in QueryOutputs \cup {"threw"} :
    SettleProbe("disk", FulfilledProbe(DetectDisk(hw.os, out)))

\* detectPlatform settles; it rejects only if an os primitive throws
H_PlatformSettles ==
  \E r \in {FulfilledProbe(DetectPlatform(hw.os)), RejectedProbe} :
    SettleProbe("platform", r)

\* the await of detectHardware resumes: the object is built and returned
H_Resume ==
  /\ hw.os # "none"
  /\ hw.outcome.state = "pending"
  /\ AwaitProbes(hw.probes) # "wait"
  /\ hw' = [hw EXCEPT !.outcome =
              IF AwaitProbes(hw.probes) = "throw"
                THEN [state |-> "rejected", value |-> "none"]
                ELSE [state |-> "fulfilled", value |-> Hardware(hw.os, hw.probes)]]
  /\ UNCHANGED <<installerVars, rec>>

\* the caller of detectHardware passes the object to getWhisperRecommendations,
\* which returns in the same turn
H_Recommend ==
  /\ hw.outcome.state = "fulfilled"
  /\ rec.state = "idle"
  /\ rec' = [state |-> "returned", profile |-> hw.outcome.value,
             result |-> GetWhisperRecommendations(hw.outcome.value)]
  /\ UNCHANGED <<installerVars, hw>>

InitHardware ==
  /\ platform \in {"win32", "posix"}
  /\ aborted = FALSE
  /\ abortCause = NoCause
  /\ spinner = "none"
  /\ exit = [via |-> "none", code |-> -1, message |-> "none"]
  /\ cc1ok = FALSE
  /\ sx = IdleSx
  /\ leaked = 0
  /\ proc = IdleProc
  /\ observed = <<>>
  /\ dl = IdleDl
  /\ log = <<>>
  /\ auto = IdleAuto
  /\ rec = IdleRec
  /\ dep = IdleDep
  /\ childOut = IdleOut
  /\ size = <<>>
  /\ fs = {}
  /\ pc = "h_detect"
  /\ \E os \in {"darwin", "linux", "win32", "freebsd"} :
       /\ platform = "win32" <=> os = "win32"
       /\ hw = StartHw(os)

NextHardware ==
  \/ H_CpuSettles \/ H_MemorySettles \/ H_GpuSettles \/ H_DiskSettles
  \/ H_PlatformSettles \/ H_Resume \/ H_Recommend

SpecHardware == InitHardware /\ [][NextHardware]_vars

-----------------------------------------------------------------------------
(* getWhisperRecommendations (installer/detectHardware.ts).                *)

\* the largest core count and memory size (GB) of the profiles tried
MaxCores == 10
MaxMemory == 9

\* the HardwareInfo objects passed (the fields the function reads); the GPU
\* is absent or a record with any flags
Profiles ==
  [cpu : [cores : 0..MaxCores], memory : [total : 0..MaxMemory],
   gpu : {Undefined} \cup [available : BOOLEAN, vendor : {"gpu"}, opencl : BOOLEAN,
                           cuda : BOOLEAN, metal : BOOLEAN]]

\* getWhisperRecommendations returns
R_Return ==
  /\ rec.state = "called"
  /\ rec' = [rec EXCEPT !.state = "returned",
                        !.result = GetWhisperRecommendations(rec.profile)]
  /\ UNCHANGED <<installerVars, hw>>

InitRecommend ==
  /\ platform \in {"win32", "posix"}
  /\ aborted = FALSE
  /\ abortCause = NoCause
  /\ spinner = "none"
  /\ exit = [via |-> "none", code |-> -1, message |-> "none"]
  /\ cc1ok = FALSE
  /\ sx = IdleSx
  /\ leaked = 0
  /\ proc = IdleProc
  /\ observed = <<>>
  /\ dl = IdleDl
  /\ log = <<>>
  /\ auto = IdleAuto
  /\ hw = IdleHw
  /\ dep = IdleDep
  /\ childOut = IdleOut
  /\ size = <<>>
  /\ fs = {}
  /\ pc = "r_call"
  /\ \E hardware \in Profiles :
       rec = [IdleRec EXCEPT !.state = "called", !.profile = hardware]

NextRecommend == R_Return

SpecRecommend == InitRecommend /\ [][NextRecommend]_vars

-----------------------------------------------------------------------------
(* installer/checkDependencies.ts.                                         *)

\* requiredDeps of checkDependenciesRequirements
RequiredDeps == <<"git", "cmake", "compiler">>

\* a DependencyInfo with available: true
Available(version) == [available |-> TRUE, version |-> version, error |-> "none"]

\* a DependencyInfo with available: false
Unavailable(error) == [available |-> FALSE, version |-> "none", error |-> error]

\* dependencies[dep]?.available: undefined for a missing entry
EntryAvailable(entry) == entry # Undefined /\ entry.available

\* a check that is satisfied by any one required tool
CheckDependenciesRequirements_Some(dependencies) ==
  \E i \in 1..Len(RequiredDeps) : EntryAvailable(dependencies[RequiredDeps[i]]) = TRUE

\* requiredDeps.every((dep) => dependencies[dep]?.available === true)
CheckDependenciesRequirements(dependencies) ==
  \A i \in 1..Len(RequiredDeps) : EntryAvailable(dependencies[RequiredDeps[i]]) = TRUE

\* a list that also names the optional python
GetMissingDependencies_WithPython(dependencies) ==
  (IF ~EntryAvailable(dependencies["git"]) THEN <<"git">> ELSE <<>>)
  \o (IF ~EntryAvailable(dependencies["cmake"]) THEN <<"cmake">> ELSE <<>>)
  \o (IF ~EntryAvailable(dependencies["compiler"]) THEN <<"gcc/clang">> ELSE <<>>)
  \o (IF ~EntryAvailable(dependencies["python"]) THEN <<"python">> ELSE <<>>)

\* getMissingDependencies: three pushes in the order git, cmake, gcc/clang
GetMissingDependencies(dependencies) ==
  (IF ~EntryAvailable(dependencies["git"]) THEN <<"git">> ELSE <<>>)
  \o (IF ~EntryAvailable(dependencies["cmake"]) THEN <<"cmake">> ELSE <<>>)
  \o (IF ~EntryAvailable(dependencies["compiler"]) THEN <<"gcc/clang">> ELSE <<>>)

\* the entries of the dependency sets passed: none, available, not available
DependencyEntries == {Undefined, Available("1.2.3"), Unavailable("not found")}

depFrame == UNCHANGED <<platform, aborted, abortCause, fs, pc, spinner, exit, cc1ok, sx,
                        leaked, proc, observed, dl, log, auto, hw, rec, childOut, size>>

\* checkDependenciesRequirements(dependencies) is applied
DP_Requirements ==
  /\ dep.pc = "called"
  /\ "requirements" \notin dep.calls
  /\ dep' = [dep EXCEPT !.calls = @ \cup {"requirements"},
                        !.meets = CheckDependenciesRequirements(dep.deps)]
  /\ depFrame

\* getMissingDependencies(dependencies) is applied
DP_Missing ==
  /\ dep.pc = "called"
  /\ "missing" \notin dep.calls
  /\ dep' = [dep EXCEPT !.calls = @ \cup {"missing"},
                        !.missing = GetMissingDependencies(dep.deps)]
  /\ depFrame

InitDeps ==
  /\ platform \in {"win32", "posix"}
  /\ aborted = FALSE
  /\ abortCause = NoCause
  /\ spinner = "none"
  /\ exit = [via |-> "none", code |-> -1, message |-> "none"]
  /\ cc1ok = FALSE
  /\ sx = IdleSx
  /\ leaked = 0
  /\ proc = IdleProc
  /\ observed = <<>>
  /\ dl = IdleDl
  /\ log = <<>>
  /\ auto = IdleAuto
  /\ hw = IdleHw
  /\ rec = IdleRec
  /\ childOut = IdleOut
  /\ size = <<>>
  /\ fs = {}
  /\ pc = "dp_call"
  /\ \E dependencies \in [DepNames -> DependencyEntries] :
       dep = [IdleDep EXCEPT !.pc = "called", !.deps = dependencies]

NextDeps == DP_Requirements \/ DP_Missing

SpecDeps == InitDeps /\ [][NextDeps]_vars

\* how an execAsync of a version query ends: it resolves with a stdout that
\* holds a version number or does not, or it rejects
ExecOutcomes == {"version", "noversion", "fail"}

\* extractVersion: the first x.y or x.y.z of the output, else the placeholder
ExtractVersion(stdout) == IF stdout = "version" THEN "1.2.3" ELSE "unknown version"

\* checkCommand: try { execAsync } catch; it returns in both cases
CheckCommand(outcome) ==
  IF outcome # "fail" THEN Available(ExtractVersion(outcome))
                      ELSE Unavailable("command failed")

\* a compiler check that goes on to clang whatever gcc answered
AfterGcc_AlwaysClang(d, outcome) ==
  IF outcome # "fail"
    THEN [d EXCEPT !.deps["compiler"] = Available("gcc " \o ExtractVersion(outcome)),
                   !.pc = "cd_clang"]
    ELSE [d EXCEPT !.pc = "cd_clang"]

\* checkCompiler after 'gcc --version': return on success, else the inner try
AfterGcc(d, outcome) ==
  IF outcome # "fail"
    THEN [d EXCEPT !.deps["compiler"] = Available("gcc " \o ExtractVersion(outcome)),
                   !.pc = "cd_python3"]
    ELSE [d EXCEPT !.pc = "cd_clang"]

\* checkCompiler after 'clang --version': both branches return
AfterClang(d, outcome) ==
  IF outcome # "fail"
    THEN [d EXCEPT !.deps["compiler"] = Available("clang " \o ExtractVersion(outcome)),
                   !.pc = "cd_python3"]
    ELSE [d EXCEPT !.deps["compiler"] = Unavailable("no gcc or clang found"),
                   !.pc = "cd_python3"]

\* one 'await checkCommand(cmd)' of checkDependencies completes
CheckCommandStep(from, tool, cmd, to) ==
  /\ dep.pc = from
  /\ \E outcome \in ExecOutcomes :
       dep' = [dep EXCEPT !.tried = Append(@, [cmd |-> cmd, outcome |-> outcome]),
                          !.deps[tool] = CheckCommand(outcome),
                          !.pc = to]
  /\ depFrame

CD_Git == CheckCommandStep("cd_git", "git", "git --version", "cd_cmake")

CD_Cmake == CheckCommandStep("cd_cmake", "cmake", "cmake --version", "cd_gcc")

\* checkCompiler: the execAsync of gcc settles
CD_Gcc ==
  /\ dep.pc = "cd_gcc"
  /\ \E outcome \in ExecOutcomes :
       dep' = [AfterGcc(dep, outcome) EXCEPT
                 !.tried = Append(@, [cmd |-> "gcc --version", outcome |-> outcome])]
  /\ depFrame

\* checkCompiler: the execAsync of clang settles
CD_Clang ==
  /\ dep.pc = "cd_clang"
  /\ \E outcome \in ExecOutcomes :
       dep' = [AfterClang(dep, outcome) EXCEPT
                 !.tried = Append(@, [cmd |-> "clang --version", outcome |-> outcome])]
  /\ depFrame

\* the optional python: checkCommand returns whatever python3 did, so the
\* catch block with 'python --version' is not entered
CD_Python3 == CheckCommandStep("cd_python3", "python", "python3 --version", "cd_make")

\* the optional make; checkDependencies returns the object
CD_Make == CheckCommandStep("cd_make", "make", "make --version", "cd_returned")

InitCheckDeps ==
  /\ platform \in {"win32", "posix"}
  /\ aborted = FALSE
  /\ abortCause = NoCause
  /\ spinner = "none"
  /\ exit = [via |-> "none", code |-> -1, message |-> "none"]
  /\ cc1ok = FALSE
  /\ sx = IdleSx
  /\ leaked = 0
  /\ proc = IdleProc
  /\ observed = <<>>
  /\ dl = IdleDl
  /\ log = <<>>
  /\ auto = IdleAuto
  /\ hw = IdleHw
  /\ rec = IdleRec
  /\ childOut = IdleOut
  /\ size = <<>>
  /\ fs = {}
  /\ pc = "cd_call"
  /\ dep = [IdleDep EXCEPT !.pc = "cd_git"]

NextCheckDeps == CD_Git \/ CD_Cmake \/ CD_Gcc \/ CD_Clang \/ CD_Python3 \/ CD_Make

SpecCheckDeps == InitCheckDeps /\ [][NextCheckDeps]_vars

\* the child of the awaited execAsync(command) is one that never exits:
\* promisify(exec) is called without options, so no timer ends it and the
\* promise stays pending
CD_NeverExits ==
  /\ dep.pc \in {"cd_git", "cd_cmake", "cd_gcc", "cd_clang", "cd_python3", "cd_make"}
  /\ dep' = [dep EXCEPT !.pc = "cd_pending"]
  /\ depFrame

NextCheckDepsLive == NextCheckDeps \/ CD_NeverExits

\* the event loop runs the continuation of every promise that settles
SpecCheckDepsLive ==
  InitCheckDeps /\ [][NextCheckDepsLive]_vars /\ WF_vars(NextCheckDepsLive)

-----------------------------------------------------------------------------
(* parseStorageSize (installer/detectHardware.ts), applied by               *)
(* detectUnixDisk to the size fields of the second line of 'df -h .'.       *)

\* CONFIG.KB_TO_GB: 1024 * 1024
KB_TO_GB == 1048576

\* CONFIG.MB_TO_GB
MB_TO_GB == 1024

\* CONFIG.BYTES_TO_GB: 1024 * 1024 * 1024
BYTES_TO_GB == 1073741824

\* STORAGE_UNITS.get(unit) ?? CONFIG.BYTES_TO_GB
STORAGE_UNITS(unit) ==
  CASE unit \in {<<"k">>, <<"k", "i">>} -> KB_TO_GB
    [] unit \in {<<"m">>, <<"m", "i">>} -> MB_TO_GB
    [] unit \in {<<"g">>, <<"g", "i">>} -> 1
    [] unit \in {<<"t">>, <<"t", "i">>} -> 1024
    [] unit \in {<<"b">>, <<>>} -> BYTES_TO_GB
    [] OTHER -> BYTES_TO_GB

\* sizeStr.match(/^(\d+(?:\.\d+)?)(.*?)$/i): the digits with an optional
\* fraction, and the rest of the field; no match when the field starts with
\* no digit. whole and fraction are the digits before and after the point.
StorageSizeMatch(sizeStr) ==
  LET whole == DigitPrefix(sizeStr)
      rest == SubSeq(sizeStr, Len(whole) + 1, Len(sizeStr))
      fraction == IF rest # <<>> /\ Head(rest) = "." THEN DigitPrefix(Tail(rest)) ELSE <<>>
  IN [matched |-> whole # <<>>, whole |-> whole, fraction |-> fraction,
      unit |-> IF fraction = <<>> THEN rest
               ELSE SubSeq(rest, Len(fraction) + 2, Len(rest))]

\* parseStorageSize: safeParseFloat(match[1]) / multiplier, with the unit in
\* lower case. The quotient is kept exact as num / (den * multiplier), den
\* being the power of ten of the fraction's digits; no match gives 0.
ParseStorageSize(sizeStr) ==
  LET match == StorageSizeMatch(sizeStr)
      lower(c) == CASE c = "K" -> "k" [] c = "M" -> "m" [] c = "G" -> "g"
                    [] c = "T" -> "t" [] c = "B" -> "b" [] c = "I" -> "i"
                    [] OTHER -> c
      pow10[n \in 0..4] == IF n = 0 THEN 1 ELSE 10 * pow10[n - 1]
  IN IF ~match.matched THEN [num |-> 0, den |-> 1, multiplier |-> 1]
     ELSE [num |-> DecimalValue(match.whole \o match.fraction),
           den |-> pow10[Len(match.fraction)],
           multiplier |-> STORAGE_UNITS([i \in 1..Len(match.unit) |-> lower(match.unit[i])])]

\* the size fields 'df -h' prints: a number and a unit letter, with the 'i'
\* of the binary units on macOS, and '-' where it has no number
SizeStrings ==
  {<<"-">>} \cup
  { number \o unit :
      number \in {<<"1">>, <<"1", "0">>, <<"1", ".", "5">>},
      unit \in {<<>>, <<"B">>, <<"K">>, <<"M">>, <<"G">>, <<"T">>,
                <<"K", "i">>, <<"M", "i">>, <<"G", "i">>, <<"T", "i">>} }

\* detectUnixDisk: one call parseStorageSize(parts[i]), in the order of the
\* fields
PS_Parse ==
  /\ pc = "ps_parse"
  /\ Len(size.parsed) < Len(size.parts)
  /\ size' = [size EXCEPT !.parsed = Append(@, ParseStorageSize(size.parts[Len(@) + 1]))]
  /\ UNCHANGED <<platform, aborted, abortCause, fs, pc, spinner, exit, cc1ok, sx,
                 leaked, proc, observed, dl, log, auto, hw, rec, dep, childOut>>

\* two size fields of one df line
InitStorage ==
  /\ platform = "posix"
  /\ aborted = FALSE
  /\ abortCause = NoCause
  /\ spinner = "none"
  /\ exit = [via |-> "none", code |-> -1, message |-> "none"]
  /\ cc1ok = FALSE
  /\ sx = IdleSx
  /\ leaked = 0
  /\ proc = IdleProc
  /\ observed = <<>>
  /\ dl = IdleDl
  /\ log = <<>>
  /\ auto = IdleAuto
  /\ hw = IdleHw
  /\ rec = IdleRec
  /\ dep = IdleDep
  /\ childOut = IdleOut
  /\ fs = {}
  /\ pc = "ps_parse"
  /\ \E a \in SizeStrings, b \in SizeStrings :
       size = [parts |-> <<a, b>>, parsed |-> <<>>]

NextStorage == PS_Parse

SpecStorage == InitStorage /\ [][NextStorage]_vars

-----------------------------------------------------------------------------
(* Properties of execCommand, under SpecExec.                              *)

\* C5: when the abort signal fires while the child of execCommand is running
\* (spawned, not killed, not closed, no error), the child is sent SIGTERM and
\* the promise rejects with an error named 'AbortError', a name that neither
\* the timeout error nor the exit-code error carries.
C5_AbortRejectsWithAbortError ==
  proc.first = "abort" =>
    /\ "SIGTERM" \in proc.kills
    /\ proc.promise.state = "rejected"
    /\ proc.promise.error.name = "AbortError"
    /\ proc.promise.error.name \notin {TimeoutError.name, ExitCodeError.name}

C5_Witness ==
  /\ proc.first = "abort"
  /\ proc.phase = "closed"
  /\ Len(observed) > 0
  /\ observed[Len(observed)] = Rejected(UserAbortError)

\* C6: when the timeout elapses before the child closes and before any abort,
\* the child is sent SIGKILL and the promise rejects with the timeout error;
\* the close event that follows the kill leaves that outcome in place.
C6_TimeoutKillsAndRejects ==
  proc.first = "timer" =>
    /\ "SIGKILL" \in proc.kills
    /\ proc.promise = Rejected(TimeoutError)

C6_Witness ==
  /\ proc.first = "timer"
  /\ proc.phase = "closed"
  /\ proc.promise = Rejected(TimeoutError)

\* the outcome each of the four events gives the promise
OutcomeOf(ev) ==
  CASE ev = "timer" -> Rejected(TimeoutError)
    [] ev = "abort" -> Rejected(UserAbortError)
    [] ev = "close0" -> Fulfilled
    [] ev = "closeN" -> Rejected(ExitCodeError)
    [] ev = "error" -> Rejected(SpawnError)
    [] OTHER -> Pending

\* C7: under every interleaving of timer expiry, abort, close and error the
\* promise of execCommand has the outcome of the event that came first, and
\* once settled it never changes (it settles exactly once).
C7_FirstEventWins ==
  /\ [](proc.phase # "idle" => proc.promise = OutcomeOf(proc.first))
  /\ [][(Settled(proc.promise) /\ ~(pc = "x_call" /\ pc' = "x_wait"))
          => proc'.promise = proc.promise]_vars

C7_Witness ==
  /\ proc.first = "timer"
  /\ proc.kills = {"SIGKILL", "SIGTERM"}
  /\ proc.errored
  /\ proc.phase = "closed"
  /\ proc.promise = Rejected(TimeoutError)

-----------------------------------------------------------------------------
(* Properties of the speech-engine installation, under Spec.               *)

\* the awaits of executeWhisperInstallation after the installed-check and
\* before spinner.succeed
InstallSteps ==
  {"w_mkdir", "w_git", "w_cmake", "w_cc1", "w_cc2", "w_cloneCheck", "w_clone_wait",
   "w_mkbuild", "w_configure", "w_compile", "w_verify", "w_modelCheck", "w_chmod",
   "w_script_wait"}

InterruptedDuringInstall ==
  aborted /\ abortCause.by = "interrupt" /\ abortCause.at \in InstallSteps

\* C1: when the user's interrupt signals the abort signal during the
\* installation (after the installed-check, before success is reported), the
\* installation never ends through quickError('installation failed') and never
\* reports success: it ends through quickExit('cancelled by user').
C1_AbortEndsInCancellation ==
  InterruptedDuringInstall =>
    /\ spinner # "succeeded"
    /\ ~(exit.via = "quickError" /\ exit.message = "installation failed")

\* C2: the session's abort signal is signaled only by the interrupt handler of
\* runInteractiveSetup, never by the timeout of an operation.
C2_OnlyInterruptSignalsAbort ==
  aborted => abortCause.by = "interrupt"

\* C4: a process exit through quickError has a non-zero exit code; exit code 0
\* is used only by quickExit (cancellation) and by a successful run.
C4_QuickErrorExitsNonZero ==
  /\ exit.via = "quickError" => exit.code # 0
  /\ (~Alive /\ exit.code = 0) => exit.via = "quickExit"

-----------------------------------------------------------------------------
(* Properties of downloadFile and the audio-downloader installation, under  *)
(* SpecDownload.                                                           *)

IsCancellation(error) == error \in {DownloadCancelledError, FetchAbortError}

\* C3: whenever the download fails because the abort signal was signaled
\* (already at entry, seen by a polling check, or aborting the request in
\* flight), the installer leaves through quickExit, not quickError.
C3_CancelledDownloadExitsCleanly ==
  (dl.phase = "failed" /\ IsCancellation(dl.error)) => exit.via = "quickExit"

\* C8: downloadFile called with a signal that is already aborted fails at once
\* with the 'download cancelled' error: no request is issued, no chunk is read
\* and the destination file is neither written nor created.
C8_PreAbortedDoesNoIO ==
  (dl.phase # "idle" /\ dl.entryAborted) =>
    /\ dl.phase = "failed"
    /\ dl.error = DownloadCancelledError
    /\ ~dl.fetched
    /\ dl.reads = 0
    /\ dl.writes = 0
    /\ dl.dest = "untouched"
    /\ "ytExe" \notin fs

C8_Witness ==
  /\ dl.entryAborted
  /\ dl.phase = "failed"
  /\ abortCause.at \in {"y_start", "y_mkdir"}

FailuresBeforeWrite ==
  {DownloadCancelledError, FetchAbortError, HttpStatusError, ZeroSizeError,
   NoBodyError, NetworkError}

\* C9: the destination is written at most once, and only after the stream was
\* read to its end with the signal not aborted; a failure by cancellation,
\* HTTP status, missing or zero Content-Length, missing body or read error
\* leaves the destination untouched; a missing or zero Content-Length fails
\* before any chunk is read.
C9_WriteOnceAfterCompleteRead ==
  /\ dl.writes <= 1
  /\ (dl.writes = 1 \/ dl.dest # "untouched") =>
       /\ dl.remaining = 0
       /\ dl.downloaded = dl.bodyLen
       /\ dl.cl > 0
       /\ dl.error \notin FailuresBeforeWrite
  /\ (dl.phase = "failed" /\ dl.error \in FailuresBeforeWrite) =>
       /\ dl.writes = 0
       /\ dl.dest = "untouched"
       /\ "ytExe" \notin fs
  /\ (dl.phase # "idle" /\ dl.cl = 0 /\ dl.phase # "fetching") => dl.reads = 0

C9_Witness ==
  /\ dl.phase = "failed"
  /\ dl.error = NetworkError
  /\ dl.reads = 2
  /\ dl.dest = "untouched"

NonDecreasing(seq) == \A i \in 1..(Len(seq) - 1) : seq[i] <= seq[i + 1]

\* C10: when the body delivers exactly Content-Length bytes, in any number of
\* chunks, the reported percentages never decrease, and by the time the file
\* is written (and the promise resolves) the last reported value is 100.
C10_ProgressMonotoneEndsAt100 ==
  (dl.phase \in {"reading", "writing", "done"} /\ dl.bodyLen = dl.cl) =>
    /\ NonDecreasing(dl.progress)
    /\ dl.phase \in {"writing", "done"} =>
         /\ Len(dl.progress) = dl.reads
         /\ Len(dl.progress) > 0
         /\ dl.progress[Len(dl.progress)] = 100

C10_Witness ==
  /\ dl.phase = "done"
  /\ dl.bodyLen = dl.cl
  /\ Len(dl.progress) = 3
  /\ dl.progress[3] = 100

\* C11: every progress value handed to the callback has a percentage in 0..100
\* and a currentSize (downloadedSize at that moment) of at most totalSize,
\* whatever the body delivers compared with the declared Content-Length.
C11_ProgressWithinRange ==
  /\ \A i \in 1..Len(dl.progress) : dl.progress[i] \in 0..100
  /\ Len(dl.progress) > 0 => dl.downloaded <= dl.cl

-----------------------------------------------------------------------------
(* Properties of runAutomaticInstallation, under SpecAuto.                 *)

\* the targets whose file is not on disk
MissingTargets(f) ==
  (IF "ytExe" \in f THEN {} ELSE {"yt-dlp"})
    \cup (IF "exe" \in f THEN {} ELSE {"whisper"})

\* C12: runAutomaticInstallation reports 'all applications installed', in an
\* invocation that showed no menu, if and only if both the audio downloader
\* and the speech engine are detected; with a target missing it shows the
\* menu and does not report.
C12_AllInstalledIffBothDetected ==
  /\ auto.reported <=> pc = "a_done"
  /\ auto.reported => /\ MissingTargets(fs) = {}
                      /\ Len(auto.prompts) = auto.depth - 1
  /\ pc = "a_prompt" => MissingTargets(fs) # {}

C12_Witness ==
  /\ pc = "a_done"
  /\ auto.reported
  /\ auto.depth = 3
  /\ Len(auto.selected) = 2

\* C13: whenever the menu is shown its choices are exactly the targets that
\* are not installed at that moment (so it is not empty and offers no installed
\* target), also for the menu shown after an installation: each invocation
\* checks both targets again before it builds its menu, and every selection
\* is an entry of the menu it answers.
C13_MenuIsExactlyTheMissingTargets ==
  /\ pc = "a_prompt" =>
       /\ Len(auto.prompts) = auto.depth
       /\ auto.prompts[Len(auto.prompts)] = MissingTargets(fs)
       /\ auto.prompts[Len(auto.prompts)] # {}
  /\ \A i \in 1..Len(auto.selected) :
       /\ i <= Len(auto.prompts)
       /\ auto.selected[i] \in auto.prompts[i]

C13_Witness ==
  /\ pc = "a_prompt"
  /\ Len(auto.prompts) = 2
  /\ Len(auto.selected) = 1
  /\ auto.prompts[1] = Targets
  /\ auto.prompts[2] = Targets \ {auto.selected[1]}

-----------------------------------------------------------------------------
(* Properties of the installers called directly, under SpecInstall.        *)

\* C15: calling executeWhisperInstallation or executeYtDlpInstallation for a
\* target that is already detected returns at once: no directory is created,
\* no process is spawned, no request is issued, no spinner is started, and
\* the filesystem is the one the call found.
C15_InstalledTargetIsNoOp ==
  /\ [](pc \in {"w_skipped", "y_skipped"} =>
          /\ log = <<>>
          /\ proc = IdleProc
          /\ sx = IdleSx
          /\ dl = IdleDl
          /\ spinner = "none"
          /\ Alive)
  /\ [][(\/ pc = "w_start" /\ "exe" \in fs
         \/ pc = "y_start" /\ "ytExe" \in fs
         \/ pc \in {"w_skipped", "y_skipped"})
          => /\ fs' = fs
             /\ <<log, proc, sx, dl>>' = <<log, proc, sx, dl>>
             /\ pc' = pc \/ pc' \in {"w_skipped", "y_skipped"}]_vars

C15_Witness ==
  /\ pc = "w_skipped"
  /\ "exe" \in fs
  /\ "baseModel" \notin fs
  /\ aborted

-----------------------------------------------------------------------------
(* Properties of executeWhisperInstallation, under Spec.                   *)

\* the commands of the steps that follow checkBuildTools
BuildCommands == {"clone", "mkbuild", "configure", "compile", "chmod", "script"}

LogHas(entries) == \E i \in 1..Len(log) : log[i] \in entries

\* a probe of checkBuildTools returned null and no other probe can make up for it
ToolMissing ==
  /\ Alive
  /\ sx.phase = "returned"
  /\ sx.result = "null"
  /\ \/ pc \in {"w_git", "w_cmake"}
     \/ pc = "w_cc2" /\ (platform # "win32" \/ ~cc1ok)

\* C16: the build tools are checked before the clone: while the check runs
\* no clone, configure, compile or model-download command has been started;
\* when the probe of git, of cmake, or of every compiler returns nothing the
\* installation ends there with quickError, and an installation that ended
\* at the check never starts any of those commands.
C16_ToolCheckBeforeClone ==
  /\ [](pc \in {"w_start", "w_mkdir", "w_git", "w_cmake", "w_cc1", "w_cc2"} =>
          ~LogHas(BuildCommands) /\ proc = IdleProc)
  /\ [][ToolMissing =>
          /\ exit'.via = "quickError"
          /\ exit'.message \in {"Git is not installed", "CMake is not installed",
                                "no compiler is installed"}
          /\ pc' = pc
          /\ log' = log]_vars
  /\ [][~Alive => log' = log /\ proc' = proc /\ sx' = sx]_vars

C16_Witness ==
  /\ pc = "w_cc2"
  /\ platform = "win32"
  /\ exit.message = "no compiler is installed"
  /\ log = <<"mkdir", "probe", "probe", "probe", "probe">>
  /\ "repo" \in fs

\* spinner.succeed('whisper.cpp installed') was called
WhisperSucceeded == pc = "w_done" /\ spinner = "succeeded"

Probes(k) == [i \in 1..k |-> "probe"]

BuildSteps == <<"mkbuild", "configure", "compile", "verify">>

\* the model download: chmod of the script except on win32, then the script
ModelSteps == IF platform = "win32" THEN <<"script">> ELSE <<"chmod", "script">>

\* the log is: mkdir, three or four probes, then the given steps
LogIs(steps) ==
  \E k \in 3..4 : log = <<"mkdir">> \o Probes(k) \o steps

\* C17 as stated: success is reported only after prepare, build-tool check,
\* clone, configure, compile, verification and model download have all run,
\* in this order, and only with the expected binary on disk.
C17_SuccessAfterAllSteps ==
  WhisperSucceeded =>
    /\ "exe" \in fs
    /\ LogIs(<<"clone">> \o BuildSteps \o ModelSteps)

\* C17, amended: success is reported only after prepare, build-tool check,
\* clone (left out when the repository directory exists), configure, compile,
\* verification and model download (left out when ggml-base.en.bin exists)
\* in this order, and only with the expected binary on disk.
C17_SuccessAfterStepsOrSkips ==
  WhisperSucceeded =>
    /\ "exe" \in fs
    /\ \E c \in {<<>>, <<"clone">>}, m \in {<<>>, ModelSteps} :
         /\ LogIs(c \o BuildSteps \o m)
         /\ c = <<>> => "repo" \in fs
         /\ m = <<>> => "baseModel" \in fs

C17_Witness ==
  /\ WhisperSucceeded
  /\ platform = "posix"
  /\ "exe" \in fs
  /\ log = <<"mkdir">> \o Probes(4) \o <<"clone">> \o BuildSteps \o ModelSteps

-----------------------------------------------------------------------------
(* Properties of executeYtDlpInstallation, under SpecDownload.             *)

\* spinner.succeed('yt-dlp installed') was called
YtDlpSucceeded == pc = "y_done" /\ spinner = "succeeded"

\* C18: the audio-downloader installation reports success only after the
\* install directory was created, then the download completed and the file
\* was written, then (except on win32) the permission was set; on win32 no
\* chmod is ever started; after a failed download or a failed chmod success
\* is not reported.
C18_YtDlpSuccessAfterSteps ==
  /\ YtDlpSucceeded =>
       /\ log = <<"y_mkdir", "fetch", "write">>
                  \o (IF platform = "win32" THEN <<>> ELSE <<"y_chmod">>)
       /\ {"ytDir", "ytExe"} \subseteq fs
       /\ dl.phase = "done"
       /\ dl.dest = "complete"
       /\ dl.downloaded = dl.bodyLen
       /\ Alive
  /\ platform = "win32" => ~LogHas({"y_chmod"})
  /\ (dl.phase = "failed" \/ ~Alive) => ~YtDlpSucceeded

C18_Witness ==
  /\ YtDlpSucceeded
  /\ platform = "posix"
  /\ log = <<"y_mkdir", "fetch", "write", "y_chmod">>
  /\ dl.reads = 2

-----------------------------------------------------------------------------
(* Properties of detectHardware, under SpecHardware.                       *)

GpuFound(os, q) ==
  /\ ~q.threw
  /\ \/ os \in {"darwin", "win32"} /\ q.main = "match"
     \/ os = "linux" /\ (q.main # "null" \/ q.lspci # "null")

\* C20: the GPU probe never rejects; when the queries find no GPU or fail it
\* yields undefined; what it yields otherwise is a record with available =
\* true, so the hardware object never holds a record with available = false.
C20_GpuUndefinedOrAvailable ==
  /\ hw.os # "none" => hw.probes["gpu"].state # "rejected"
  /\ (hw.os # "none" /\ hw.probes["gpu"].state = "fulfilled") =>
       LET gpu == hw.probes["gpu"].value
       IN /\ ~GpuFound(hw.os, hw.gpuQuery) => gpu = Undefined
          /\ gpu # Undefined => gpu.available
  /\ hw.outcome.state = "fulfilled" =>
       \/ hw.outcome.value["gpu"] = Undefined
       \/ hw.outcome.value["gpu"].available

C20_Witness ==
  /\ hw.os = "darwin"
  /\ hw.gpuQuery # <<>>
  /\ hw.gpuQuery.main = "null"
  /\ ~hw.gpuQuery.threw
  /\ hw.outcome.state = "fulfilled"
  /\ hw.outcome.value["gpu"] = Undefined

-----------------------------------------------------------------------------
(* Properties of getWhisperRecommendations, under SpecRecommend.           *)

Returned == rec.state = "returned"

C22_UseGPUMatchesBackend ==
  Returned =>
    /\ rec.result.useGPU <=> GpuAvailable(rec.profile.gpu)
    /\ rec.result.useGPU => rec.result.backend # "cpu"
    /\ ~rec.result.useGPU => rec.result.backend = "cpu"

\* C23: for a profile whose GPU is available the backend follows the priority
\* CUDA, Metal, OpenCL: 'cuda' whenever the cuda flag is set, 'metal' exactly
\* when cuda is not set and metal is, 'opencl' exactly when neither cuda nor
\* metal is set and opencl is.
C23_BackendPriority ==
  (Returned /\ GpuAvailable(rec.profile.gpu)) =>
    LET gpu == rec.profile.gpu
        backend == rec.result.backend
    IN /\ gpu.cuda => backend = "cuda"
       /\ backend = "metal" <=> (~gpu.cuda /\ gpu.metal)
       /\ backend = "opencl" <=> (~gpu.cuda /\ ~gpu.metal /\ gpu.opencl)

C23_Witness ==
  /\ Returned
  /\ GpuAvailable(rec.profile.gpu)
  /\ rec.profile.gpu.cuda /\ rec.profile.gpu.metal /\ rec.profile.gpu.opencl
  /\ rec.result.backend = "cuda"

\* the models in the order base < small < medium < large
ModelRank(model) ==
  CASE model = "base" -> 0 [] model = "small" -> 1 [] model = "medium" -> 2
    [] model = "large" -> 3

\* C24: the model is a monotonic step function of the total memory (GB): below
\* the smallest threshold it is 'base', at or above a threshold it is at least
\* that threshold's model, exactly 4 GB gives 'medium', and no smaller amount
\* of memory gives a larger model.
C24_ModelMonotonic ==
  Returned =>
    LET total == rec.profile.memory.total
        rank == ModelRank(rec.result.model)
    IN /\ rec.result.model \in {"base", "small", "medium", "large"}
       /\ total < SMALL_MODEL => rank = 0
       /\ total >= SMALL_MODEL => rank >= 1
       /\ total >= MEDIUM_MODEL => rank >= 2
       /\ total >= LARGE_MODEL => rank >= 3
       /\ total = 4 => rec.result.model = "medium"
       /\ \A less \in 0..total : ModelRank(RecommendedModel(less)) <= rank

C24_Witness ==
  /\ Returned
  /\ rec.profile.memory.total = 4
  /\ rec.result.model = "medium"

\* C29 (under SpecHardware): the CPU probe never yields fewer than one core,
\* and for every profile detectHardware returns the recommended thread count
\* is greater than 0 and at most cpu.cores.
C29_ThreadsWithinDetectedCores ==
  /\ (hw.os # "none" /\ hw.probes["cpu"].state = "fulfilled") =>
       hw.probes["cpu"].value.cores >= 1
  /\ Returned =>
       /\ rec.result.threads > 0
       /\ rec.result.threads <= rec.profile.cpu.cores

-----------------------------------------------------------------------------
(* Properties of the dependency functions, under SpecDeps.                 *)

\* the name getMissingDependencies gives a required tool
MissingLabel(tool) == IF tool = "compiler" THEN "gcc/clang" ELSE tool

Elements(seq) == {seq[i] : i \in 1..Len(seq)}

\* the entry of a tool says available = true
SaysAvailable(tool) == dep.deps[tool] # Undefined /\ dep.deps[tool].available

\* C25: the list of getMissingDependencies holds exactly the required tools
\* (git, cmake, compiler) whose entry is not available: never one whose entry
\* has available = true, always one whose entry has available = false, never
\* an optional tool (python, make), and in the order git, cmake, compiler.
C25_MissingAreUnavailableRequired ==
  "missing" \in dep.calls =>
    LET required == {"git", "cmake", "compiler"}
        order == <<"git", "cmake", "gcc/clang">>
        Position(label) == CHOOSE i \in 1..3 : order[i] = label
    IN /\ \A tool \in required :
            MissingLabel(tool) \in Elements(dep.missing) <=> ~SaysAvailable(tool)
       /\ Elements(dep.missing) \subseteq {MissingLabel(tool) : tool \in required}
       /\ \A i, j \in 1..Len(dep.missing) :
            i < j => Position(dep.missing[i]) < Position(dep.missing[j])

C25_Witness ==
  /\ "missing" \in dep.calls
  /\ SaysAvailable("git")
  /\ dep.deps["cmake"] # Undefined /\ ~dep.deps["cmake"].available
  /\ dep.deps["compiler"] # Undefined /\ ~dep.deps["compiler"].available
  /\ dep.deps["python"] # Undefined /\ ~dep.deps["python"].available
  /\ dep.missing = <<"cmake", "gcc/clang">>

\* C26: checkDependenciesRequirements returns true exactly when git, cmake and
\* compiler are all available, whatever the python and make entries are;
\* that is exactly when getMissingDependencies returns the empty list.
C26_MeetsIffAllRequired ==
  /\ "requirements" \in dep.calls =>
       (dep.meets <=> \A tool \in {"git", "cmake", "compiler"} : SaysAvailable(tool))
  /\ {"requirements", "missing"} \subseteq dep.calls =>
       (dep.meets <=> dep.missing = <<>>)

C26_Witness ==
  /\ {"requirements", "missing"} \subseteq dep.calls
  /\ dep.meets
  /\ dep.missing = <<>>
  /\ dep.deps["python"] # Undefined /\ ~dep.deps["python"].available
  /\ dep.deps["make"] = Undefined

-----------------------------------------------------------------------------
(* Properties of checkDependencies, under SpecCheckDeps.                   *)

\* the command was run and ended this way
TriedWith(cmd, outcomes) ==
  \E i \in 1..Len(dep.tried) : dep.tried[i].cmd = cmd /\ dep.tried[i].outcome \in outcomes

\* C27: the compiler check runs gcc first and clang only after gcc failed; it
\* reports the compiler unavailable only when both failed, reports it
\* available with the gcc version whenever gcc succeeded (clang is then not
\* run), and never throws: it always goes on with a compiler entry.
C27_GccThenClang ==
  LET compiler == dep.deps["compiler"]
      gccOk == TriedWith("gcc --version", {"version", "noversion"})
      gccFailed == TriedWith("gcc --version", {"fail"})
      clangRun == TriedWith("clang --version", ExecOutcomes)
  IN /\ \A i \in 1..Len(dep.tried) :
          dep.tried[i].cmd = "clang --version" =>
            /\ i > 1
            /\ dep.tried[i - 1] = [cmd |-> "gcc --version", outcome |-> "fail"]
     /\ (compiler # Undefined /\ ~compiler.available) =>
          gccFailed /\ TriedWith("clang --version", {"fail"})
     /\ gccOk =>
          /\ compiler # Undefined /\ compiler.available
          /\ compiler.version \in {"gcc 1.2.3", "gcc unknown version"}
          /\ ~clangRun
     /\ dep.pc \in {"cd_git", "cd_cmake", "cd_gcc", "cd_clang", "cd_python3", "cd_make",
                    "cd_returned"}
     /\ dep.pc \in {"cd_python3", "cd_make", "cd_returned"} => compiler # Undefined
     /\ (gccOk \/ clangRun) => dep.pc \in {"cd_python3", "cd_make", "cd_returned"}

C27_Witness ==
  /\ dep.pc = "cd_returned"
  /\ TriedWith("gcc --version", {"fail"})
  /\ TriedWith("clang --version", {"version"})
  /\ dep.deps["compiler"] = Available("clang 1.2.3")

-----------------------------------------------------------------------------
(* Properties of the output callbacks of execCommand, under SpecExec.      *)

\* the position of the first line terminator, 0 if there is none
FirstNewline(text) ==
  IF \E i \in 1..Len(text) : text[i] = "\n"
    THEN CHOOSE i \in 1..Len(text) : text[i] = "\n" /\ \A j \in 1..(i - 1) : text[j] # "\n"
    ELSE 0

\* the lines of a text; a last line needs no terminator
RECURSIVE SplitLines(_)
SplitLines(text) ==
  IF text = <<>> THEN <<>>
  ELSE IF FirstNewline(text) = 0 THEN <<text>>
  ELSE <<SubSeq(text, 1, FirstNewline(text) - 1)>>
       \o SplitLines(SubSeq(text, FirstNewline(text) + 1, Len(text)))

\* a callback argument without the terminator that may end it
WithoutTerminator(arg) ==
  IF arg # <<>> /\ arg[Len(arg)] = "\n" THEN SubSeq(arg, 1, Len(arg) - 1) ELSE arg

\* C28: when the child has closed, the stdout callback was called once per line
\* of the output, each time with one complete line (with or without its
\* terminator), however the output was split into chunks.
C28_OneCallPerLine ==
  (proc.phase = "closed" /\ proc.step = "x") =>
    [i \in 1..Len(childOut.calls) |-> WithoutTerminator(childOut.calls[i])]
      = SplitLines(childOut.stdout)

\* C30: a call of execCommand whose abort signal was already signaled when
\* the child was spawned (the signal is set and no event has reached the
\* running child yet) does not run to completion: the first thing that happens
\* to it is the rejection of its promise with the 'AbortError' error, as when
\* the signal fires during the run.
C30_PreAbortedCallIsCancelled ==
  [][(aborted /\ proc.phase = "running" /\ proc.step = "x" /\ proc.first = "none"
      /\ proc' # proc)
       => /\ proc'.promise.state = "rejected"
          /\ proc'.promise.error.name = "AbortError"
          /\ "SIGTERM" \in proc'.kills]_vars

-----------------------------------------------------------------------------
(* Properties of the remaining claims on timers, the build and re-runs.    *)

\* C31 (under Spec): no timer or abort listener outlives its operation: once
\* the child of execCommand has closed or errored its timer is cleared and its
\* abort listener removed, and once safeExec has returned, with the output or
\* with null, no timer of it is still pending.
C31_NoTimerOutlivesItsOperation ==
  /\ (proc.phase = "closed" \/ proc.errored) => (~proc.timer /\ ~proc.listener)
  /\ sx.phase = "returned" => ~sx.timer
  /\ leaked = 0

\* C32 (under Spec): a failed configure step (safeExec returned null: non-zero
\* exit, timeout or spawn error) ends the installation attempt: the compile
\* step is not started after it; and after a failed compile step the attempt
\* does not go on to the check of the binary either.
C32_FailedBuildStepStops ==
  [][/\ (pc = "w_configure" /\ sx.phase = "returned" /\ sx.result = "null")
          => (pc' # "w_compile" /\ log' = log)
     /\ (pc = "w_compile" /\ sx.phase = "returned" /\ sx.result = "null")
          => pc' # "w_verify"]_vars

\* C33 (under Spec): the baseline-model step starts the download script only
\* when the model file it checks for is absent, and it is idempotent: when
\* the step has succeeded after running the script, the file that its
\* presence check looks for is on disk, so that a later invocation finds it
\* and does not run the script again.
C33_ModelDownloadIdempotent ==
  [][/\ (~LogHas({"script"}) /\ LogHas({"script"})') => "baseModel" \notin fs
     /\ (WhisperSucceeded' /\ LogHas({"script"})') => "baseModel" \in fs']_vars

\* C34 (under Spec): the clone step starts 'git clone' exactly when the
\* repository directory does not exist; when the directory exists it starts
\* no command and goes on to the build (a cancelled session ends there
\* instead); no other step starts a clone.
C34_CloneIffRepoMissing ==
  [][/\ (pc = "w_cloneCheck" /\ Alive /\ (pc' # pc \/ exit' # exit)) =>
          /\ "repo" \notin fs <=>
               /\ log' = Append(log, "clone")
               /\ proc'.phase = "running" /\ proc'.step = "clone"
               /\ pc' = "w_clone_wait"
          /\ "repo" \in fs =>
               /\ log' = log /\ proc' = proc
               /\ IF aborted THEN ~Alive' ELSE pc' = "w_mkbuild"
     /\ (~LogHas({"clone"}) /\ LogHas({"clone"})') =>
          (pc = "w_cloneCheck" /\ "repo" \notin fs)]_vars

C34_Witness ==
  /\ pc = "w_mkbuild"
  /\ "repo" \in fs
  /\ ~LogHas({"clone"})
  /\ proc = IdleProc

\* C35 (under Spec): from every filesystem state an earlier attempt can
\* leave behind, a run of the installation that returns normally (no command
\* of it failed) ends with the executable and a model on disk.
C35_RerunEndsUsable ==
  pc \in {"w_done", "w_skipped"} =>
    /\ CheckWhisperCppInstalled(fs)
    /\ fs \cap {"baseModel", "tinyModel"} # {}

\* C38 (under Spec): whenever an installation attempt has ended, by failure,
\* cancellation or success, and the detection predicate of the speech engine
\* is true, the baseline model is on disk.
C38_InstalledImpliesModel ==
  (~Alive \/ pc = "w_done") =>
    (CheckWhisperCppInstalled(fs) => "baseModel" \in fs)

\* C36 (under SpecCheckDepsLive): checkDependencies always returns, also
\* when a version query never exits, and in the object it returns a tool
\* whose command succeeded is available and a tool whose command failed is
\* unavailable with an error message.
C36_CheckDependenciesReturns ==
  /\ <>(dep.pc = "cd_returned")
  /\ [](dep.pc = "cd_returned" =>
          \A q \in {<<"git", "git --version">>, <<"cmake", "cmake --version">>,
                    <<"python", "python3 --version">>, <<"make", "make --version">>} :
            /\ dep.deps[q[1]] # Undefined
            /\ TriedWith(q[2], {"version", "noversion"}) =>
                 (dep.deps[q[1]].available /\ dep.deps[q[1]].version # "none")
            /\ TriedWith(q[2], {"fail"}) =>
                 (~dep.deps[q[1]].available /\ dep.deps[q[1]].error # "none"))

\* C39 (under SpecCheckDeps): when 'python3 --version' fails,
\* checkDependencies queries 'python --version' before it returns, and the
\* python entry is unavailable only when both queries failed.
C39_PythonFallback ==
  (dep.pc = "cd_returned" /\ TriedWith("python3 --version", {"fail"})) =>
    /\ TriedWith("python --version", ExecOutcomes)
    /\ ~SaysAvailable("python") => TriedWith("python --version", {"fail"})

\* the place of a unit letter in the order K < M < G < T, 0 for other units
UnitRank(unit) ==
  IF unit = <<>> THEN 0
  ELSE CASE Head(unit) = "K" -> 1 [] Head(unit) = "M" -> 2
         [] Head(unit) = "G" -> 3 [] Head(unit) = "T" -> 4 [] OTHER -> 0

\* C37 (under SpecStorage): of two fields with the same number, units of the
\* same letter parse to the same size whether or not the 'i' follows, and
\* the next unit in the order K < M < G < T parses to 1024 times the size
\* (so sizes strictly increase in that order).
C37_UnitsScaleBy1024 ==
  Len(size.parsed) = 2 =>
    LET a == StorageSizeMatch(size.parts[1])
        b == StorageSizeMatch(size.parts[2])
        x == size.parsed[1]
        y == size.parsed[2]
    IN (a.matched /\ b.matched /\ a.whole = b.whole /\ a.fraction = b.fraction
        /\ UnitRank(a.unit) > 0 /\ UnitRank(b.unit) > 0) =>
         /\ UnitRank(b.unit) = UnitRank(a.unit) =>
              y.num * x.den * x.multiplier = x.num * y.den * y.multiplier
         /\ UnitRank(b.unit) = UnitRank(a.unit) + 1 =>
              /\ y.num * x.den * x.multiplier = x.num * y.den * y.multiplier * 1024
              /\ x.num * y.den * y.multiplier < y.num * x.den * x.multiplier

====
